---- MODULE Spec2Model ----
(***************************************************************************)
(* OTP-gated state machines of the concreexpo back office: appointments    *)
(* (appointment.controller.ts), worker visits (workerVisit.controller.ts), *)
(* the MSG91 gateway client (sms.service.ts), the OTP utilities and the   *)
(* widget token helpers (generateOTP .. verifyMSG91OTPToken).              *)
(*                                                                         *)
(* Text is a sequence of character codes: 0..9 are the digits '0'..'9',    *)
(* 10 is '+', 11 is ' ', 12 is '-', 13 is a letter.  Instants are          *)
(* milliseconds since the start of the run; a nullable column holding no   *)
(* instant is NoTime, a nullable text column holding nothing is <<>>.      *)
(* A request is served at one instant: the clock does not advance between  *)
(* a handler's first and last statement.                                   *)
(*                                                                         *)
(* consumed, resendAt and wrongCodes are history variables: the widget     *)
(* tokens that have carried a provider-confirmed verification, the arrival *)
(* time of the last resend request (kept by the runs of SpecResend only)   *)
(* and the number of inline verifications that compared a wrong code (of   *)
(* worker visits in the runs of SpecVisit, of appointments in the runs of  *)
(* SpecVerifyRace, not kept elsewhere).  No handler reads them.            *)
(***************************************************************************)
EXTENDS Integers, Sequences, FiniteSets, TLC

VARIABLES now, ticks, cfg, appt, visit, tokens, consumed, resendAt, wrongCodes,
          smsLog, resp, inflight

vars == <<now, ticks, cfg, appt, visit, tokens, consumed, resendAt, wrongCodes,
          smsLog, resp, inflight>>

----
(* Bounds of the exploration *)

\* number of clock advances explored in one run
MaxTicks == 1
\* deliveries are explored while the delivery log holds fewer rows than this
MaxLog == 2
\* worker-visit deliveries are explored while the log holds fewer rows than
\* this: a creation that reached both recipients leaves room for a resend
MaxVisitLog == 3
\* direct gateway calls are explored while the log holds fewer rows than this
MaxGatewayLog == 1
\* number of widget tokens issued in one run
MaxTokens == 1
\* seeds of the sample random draws fed to generateOTP
MaxDrawSeed == 1
\* wrong-code refusals of a worker visit counted in one run
MaxWrong == 2
\* wrong codes compared by concurrent appointment verifications in one run
MaxCompares == 4

----
(* Program constants *)

\* config.otp.length
OtpLength == 6
\* config.otp.expiryMinutes
ExpiryMinutes == 15
\* config.otp.workerVisitExpiryHours
WorkerVisitExpiryHours == 24
\* cooldownPeriod = 60 * 1000
CooldownPeriod == 60 * 1000
\* otpAttempts >= 3
MaxAttempts == 3
\* expiresIn: 15 * 60 (appointment widget token, seconds)
ApptTokenTtl == 15 * 60
\* expiresIn: 24 * 60 * 60 (worker-visit widget token, seconds)
VisitTokenTtl == 24 * 60 * 60
\* feedback.trim().length < 10
MinFeedback == 10

NoTime == 0 - 1
NoText == <<>>
NoCount == 0 - 1
\* the value of resendAt and of wrongCodes in runs that keep no such history
Untracked == 0 - 2
Space == 10 + 1
Letter == 10 + 3

\* variant: another fixed code
BypassCodeNines == <<9, 9, 9, 9, 9, 9>>

\* the test OTP '000000'
BypassCode == <<0, 0, 0, 0, 0, 0>>

----
(* Text helpers *)

IsDigit(c) == c \in 0..9

\* phone.replace(/\D/g, '')
DigitsOf(s) == SelectSeq(s, IsDigit)

StartsWith(s, p) == Len(s) >= Len(p) /\ SubSeq(s, 1, Len(p)) = p

RECURSIVE TrimLeft(_)
TrimLeft(s) == IF s # <<>> /\ Head(s) = Space THEN TrimLeft(Tail(s)) ELSE s

RECURSIVE TrimRight(_)
TrimRight(s) ==
    IF s # <<>> /\ s[Len(s)] = Space THEN TrimRight(SubSeq(s, 1, Len(s) - 1)) ELSE s

\* variant: only the leading whitespace is removed
TrimStart(s) == TrimLeft(s)

\* String.prototype.trim
Trim(s) == TrimRight(TrimLeft(s))

\* cleaned.slice(-10)
Last10(s) == IF Len(s) <= 10 THEN s ELSE SubSeq(s, Len(s) - 9, Len(s))

\* Math.ceil(a / b) for a >= 0, b > 0
CeilDiv(a, b) == (a + b - 1) \div b

----
(* Phone Normalizer (sms.service.ts).  The failure signal null is NoText. *)

\* variant: the prefix is added to twelve digits that already carry it
normalizePhoneNumberPrefixing(phone) ==
    LET cleaned == DigitsOf(phone) IN
    IF phone = NoText THEN NoText
    ELSE IF cleaned = <<>> THEN NoText
    ELSE IF StartsWith(cleaned, <<9, 1>>) THEN
        IF Len(cleaned) = 12 THEN <<9, 1>> \o cleaned
        ELSE IF Len(cleaned) > 12 THEN SubSeq(cleaned, 1, 12)
        ELSE NoText
    ELSE IF Len(cleaned) = 10 THEN <<9, 1>> \o cleaned
    ELSE IF Len(cleaned) = 11 /\ Head(cleaned) = 0 THEN <<9, 1>> \o Tail(cleaned)
    ELSE IF Len(cleaned) > 10 /\ Len(cleaned) <= 13 THEN cleaned
    ELSE NoText

\* variant: a number that starts with 91 and is too short passes through
normalizePhoneNumberLenient(phone) ==
    LET cleaned == DigitsOf(phone) IN
    IF phone = NoText THEN NoText
    ELSE IF cleaned = <<>> THEN NoText
    ELSE IF StartsWith(cleaned, <<9, 1>>) THEN
        IF Len(cleaned) = 12 THEN cleaned
        ELSE IF Len(cleaned) > 12 THEN SubSeq(cleaned, 1, 12)
        ELSE cleaned
    ELSE IF Len(cleaned) = 10 THEN <<9, 1>> \o cleaned
    ELSE IF Len(cleaned) = 11 /\ Head(cleaned) = 0 THEN <<9, 1>> \o Tail(cleaned)
    ELSE IF Len(cleaned) > 10 /\ Len(cleaned) <= 13 THEN cleaned
    ELSE NoText

normalizePhoneNumber(phone) ==
    LET cleaned == DigitsOf(phone) IN
    IF phone = NoText THEN NoText
    ELSE IF cleaned = <<>> THEN NoText
    ELSE IF StartsWith(cleaned, <<9, 1>>) THEN
        IF Len(cleaned) = 12 THEN cleaned
        ELSE IF Len(cleaned) > 12 THEN SubSeq(cleaned, 1, 12)
        ELSE NoText
    ELSE IF Len(cleaned) = 10 THEN <<9, 1>> \o cleaned
    ELSE IF Len(cleaned) = 11 /\ Head(cleaned) = 0 THEN <<9, 1>> \o Tail(cleaned)
    ELSE IF Len(cleaned) > 10 /\ Len(cleaned) <= 13 THEN cleaned
    ELSE NoText

----
(* OTP Generator (utils/otp.ts) *)

\* the sample sequences of Math.floor(Math.random() * 10) draws
RandomDraws == { [i \in 1..OtpLength |-> (k * i) % 10] : k \in 0..MaxDrawSeed }

\* digits[draw] appended length times
generateOTP(length, draw) == [i \in 1..length |-> draw[i]]

\* variant: the minutes are added as seconds
getOTPExpiryInSeconds(t) == t + ExpiryMinutes * 60

\* new Date() + minutes
getOTPExpiry(t) == t + ExpiryMinutes * 60 * 1000

\* new Date() + hours
getWorkerVisitOTPExpiry(t) == t + WorkerVisitExpiryHours * 60 * 60 * 1000

\* variant: the expiry instant itself counts as expired
isOTPExpiredInclusive(t, expiryDate) == t >= expiryDate

\* variant: the comparison is turned round
isOTPExpiredReversed(t, expiryDate) == expiryDate > t

\* new Date() > expiryDate
isOTPExpired(t, expiryDate) == t > expiryDate

----
(* SMS Gateway Client (sms.service.ts).  A provider outcome is what one    *)
(* HTTP call to MSG91 produces: a response whose type is 'success', a      *)
(* response of another type, or an exception thrown by axios.  A gateway   *)
(* operation returns its boolean, the SMSLog rows it created and the       *)
(* provider endpoints it called, in order.                                 *)

Success == [type |-> "success", message |-> "", log |-> "ok"]
Failure == [type |-> "error", message |-> "template not approved", log |-> "ok"]
Thrown == [type |-> "throw", message |-> "timeout", log |-> "ok"]

ProviderOutcomes == {Success, Failure, Thrown}

\* the outcomes of the prisma.sMSLog.create calls made around one provider
\* call: every write succeeds, the first write fails and the later ones
\* succeed, every write fails
LogOutcomes == {"ok", "flaky", "down"}
Logged(out, log) == [out EXCEPT !.log = log]

\* the outcomes of the calls one delivery may make: the /otp call, the
\* sendSMS call inside sendOTPViaMSG91, the sendSMS call it repeats from its
\* catch block, the caller's own sendSMS call and the sendSMS call to the
\* admin
Outcomes(o, s1, s2, a) ==
    [otp |-> o, sms1 |-> s1, retry |-> s1, sms2 |-> s2, admin |-> a]

\* the deliveries the request handlers are explored with; their log writes
\* succeed (the gateway called directly is explored with failing ones too)
DeliveryOutcomes ==
    { Outcomes(Success, Success, Success, Success),
      Outcomes(Thrown, Failure, Success, Failure),
      Outcomes(Failure, Failure, Failure, Success) }

\* one SMSLog row; the message column is kept as the kind of text written
\* (the OTP marker `OTP: <code>` or one of the human-readable texts)
Row(phone, kind, otp, status, error) ==
    [phone |-> phone, message |-> kind, status |-> status, error |-> error]

\* error.response?.data?.message || error.message || 'Unknown error'
ErrorText(out) == IF out.message # "" THEN out.message ELSE "Unknown error"

\* error.message of a rejected prisma.sMSLog.create
LogErrorText == "database error"

FlowEndpoint == IF cfg.templateId THEN "flow-template" ELSE "flow-plain"

\* what a gateway function did: the boolean it resolved to (or raised, when
\* the promise rejected), the rows it wrote and the endpoints it called
Resolved(ok, rows, calls) == [ok |-> ok, raised |-> FALSE, rows |-> rows, calls |-> calls]
Rejected(rows, calls) == [ok |-> FALSE, raised |-> TRUE, rows |-> rows, calls |-> calls]

\* variant: an invalid recipient is refused without a log row
sendSMSUnlogged(to, kind, otp, out) ==
    LET normalizedPhone == normalizePhoneNumber(to) IN
    IF normalizedPhone = NoText
    THEN Resolved(FALSE, <<>>, <<>>)
    ELSE IF out.type = "throw"
    THEN IF out.log = "ok"
         THEN Resolved(FALSE, <<Row(normalizedPhone, kind, otp, "failed", ErrorText(out))>>,
                       <<FlowEndpoint>>)
         ELSE Rejected(<<>>, <<FlowEndpoint>>)
    ELSE IF out.log = "ok"
    THEN Resolved(out.type = "success",
                  <<Row(normalizedPhone, kind, otp,
                        IF out.type = "success" THEN "sent" ELSE "failed", "")>>,
                  <<FlowEndpoint>>)
    ELSE IF out.log = "flaky"
    THEN Resolved(FALSE, <<Row(normalizedPhone, kind, otp, "failed", LogErrorText)>>,
                  <<FlowEndpoint>>)
    ELSE Rejected(<<>>, <<FlowEndpoint>>)

sendSMS(to, kind, otp, out) ==
    LET normalizedPhone == normalizePhoneNumber(to) IN
    IF normalizedPhone = NoText
    THEN Resolved(FALSE, IF out.log = "ok"
                         THEN <<Row(to, kind, otp, "failed", "Invalid phone number format")>>
                         ELSE <<>>, <<>>)
    ELSE IF out.type = "throw"
    THEN IF out.log = "ok"
         THEN Resolved(FALSE, <<Row(normalizedPhone, kind, otp, "failed", ErrorText(out))>>,
                       <<FlowEndpoint>>)
         ELSE Rejected(<<>>, <<FlowEndpoint>>)
    ELSE IF out.log = "ok"
    THEN Resolved(out.type = "success",
                  <<Row(normalizedPhone, kind, otp,
                        IF out.type = "success" THEN "sent" ELSE "failed", "")>>,
                  <<FlowEndpoint>>)
    ELSE IF out.log = "flaky"
    THEN Resolved(FALSE, <<Row(normalizedPhone, kind, otp, "failed", LogErrorText)>>,
                  <<FlowEndpoint>>)
    ELSE Rejected(<<>>, <<FlowEndpoint>>)

\* a catch block that ends in a sendSMS fallback: a guarded log write of
\* the marker row, then what the fallback did
Caught(rows, calls, marker, written, fallback) ==
    [ok |-> fallback.ok, raised |-> fallback.raised,
     rows |-> rows \o (IF written THEN <<marker>> ELSE <<>>) \o fallback.rows,
     calls |-> calls \o fallback.calls]

\* the body of sendOTPViaMSG91, given what its two sendSMS calls do when
\* they are made: the fallback, and the fallback repeated from the catch
\* block when the first one raised
OTPViaMSG91(phone, normalizedPhone, otp, outs, first, retry) ==
    IF normalizedPhone = NoText
    THEN Resolved(FALSE, IF outs.otp.log = "ok"
                         THEN <<Row(phone, "otp-marker", otp, "failed",
                                    "Invalid phone number format")>>
                         ELSE <<>>, <<>>)
    ELSE IF ~cfg.otpTemplateId
    THEN IF first.raised
         THEN Caught(first.rows, first.calls,
                     Row(normalizedPhone, "otp-marker", otp, "failed", LogErrorText),
                     outs.sms1.log = "flaky", retry)
         ELSE first
    ELSE IF outs.otp.type = "throw"
    THEN Caught(<<>>, <<"otp">>,
                Row(normalizedPhone, "otp-marker", otp, "failed", ErrorText(outs.otp)),
                outs.otp.log = "ok", first)
    ELSE IF outs.otp.log # "ok"
    THEN Caught(<<>>, <<"otp">>,
                Row(normalizedPhone, "otp-marker", otp, "failed", LogErrorText),
                outs.otp.log = "flaky", first)
    ELSE Resolved(outs.otp.type = "success",
                  <<Row(normalizedPhone, "otp-marker", otp,
                        IF outs.otp.type = "success" THEN "sent" ELSE "failed",
                        IF outs.otp.type = "success" THEN "" ELSE ErrorText(outs.otp))>>,
                  <<"otp">>)

sendOTPViaMSG91(phone, otp, outs) ==
    OTPViaMSG91(phone, normalizePhoneNumber(phone), otp, outs,
                sendSMS(normalizePhoneNumber(phone), "otp-text", otp, outs.sms1),
                sendSMS(normalizePhoneNumber(phone), "otp-text", otp, outs.retry))

\* the outer catch block of sendVisitOTP: a guarded log write, then false
CaughtVisit(clientPhone, otp, rows, calls, written) ==
    Resolved(FALSE,
             rows \o (IF written
                      THEN <<Row(clientPhone, "otp-marker", otp, "failed", LogErrorText)>>
                      ELSE <<>>),
             calls)

\* the body of sendVisitOTP, given what its sendOTPViaMSG91 call and its
\* sendSMS call do when they are made
VisitOTP(clientPhone, normalizedPhone, otp, outs, otpSent, smsSent) ==
    IF normalizedPhone = NoText
    THEN IF outs.otp.log = "ok"
         THEN Resolved(FALSE, <<Row(clientPhone, "otp-marker", otp, "failed",
                                    "Invalid phone number format")>>, <<>>)
         ELSE CaughtVisit(clientPhone, otp, <<>>, <<>>, outs.otp.log = "flaky")
    ELSE IF otpSent.raised
    THEN CaughtVisit(clientPhone, otp, otpSent.rows, otpSent.calls,
                     "flaky" \in {outs.sms1.log, outs.retry.log})
    ELSE IF otpSent.ok THEN otpSent
    ELSE IF smsSent.raised
    THEN CaughtVisit(clientPhone, otp, otpSent.rows \o smsSent.rows,
                     otpSent.calls \o smsSent.calls, outs.sms2.log = "flaky")
    ELSE Resolved(smsSent.ok,
                  otpSent.rows \o smsSent.rows \o
                   (IF smsSent.ok \/ outs.sms2.log = "down" THEN <<>>
                    ELSE <<Row(normalizedPhone, "otp-marker", otp, "failed",
                               "Both OTP API and regular SMS failed")>>),
                  otpSent.calls \o smsSent.calls)

sendVisitOTP(clientPhone, otp, outs) ==
    VisitOTP(clientPhone, normalizePhoneNumber(clientPhone), otp, outs,
             sendOTPViaMSG91(normalizePhoneNumber(clientPhone), otp, outs),
             sendSMS(normalizePhoneNumber(clientPhone), "visit-text", otp, outs.sms2))

\* the second result after the first, when the first neither raised nor
\* succeeded
OrElse(otpSent, smsSent) ==
    IF otpSent.raised \/ otpSent.ok THEN otpSent
    ELSE [ok |-> smsSent.ok, raised |-> smsSent.raised,
          rows |-> otpSent.rows \o smsSent.rows,
          calls |-> otpSent.calls \o smsSent.calls]

\* variant: the OTP endpoint's answer is final
sendWorkerCountOTPToClientOnce(clientPhone, otp, outs) ==
    sendOTPViaMSG91(clientPhone, otp, outs)

sendWorkerCountOTPToClient(clientPhone, otp, outs) ==
    OrElse(sendOTPViaMSG91(clientPhone, otp, outs),
           sendSMS(clientPhone, "worker-client-text", otp, outs.sms2))

sendWorkerCountOTPToAdmin(adminPhone, otp, out) ==
    sendSMS(adminPhone, "worker-admin-text", otp, out)

----
(* State *)

Engineers == {"e1", "e2"}
\* the admin whose requests to the engineer routes are explored
Admins == {"adm"}
\* req.user.role, as the login token carries it
Role(userId) == IF userId \in Admins THEN "ADMIN" ELSE "ENGINEER"
\* the users with role ENGINEER and isActive
ActiveEngineers == Engineers
\* the appointment a1 and the visit v1 are the rows that may exist; a2 and
\* v2 resolve to nothing
ApptIds == {"a1", "a2"}
VisitIds == {"v1", "v2"}
NoId == "undefined"

ValidPhone == <<9, 8, 7, 6, 5, 4, 3, 2, 1, 0>>
PrettyPhone == <<10, 9, 1, 11, 9, 8, 7, 6, 5, 12, 4, 3, 2, 1, 1>>
BlankPhone == <<Space>>
MalformedPhone == <<9, 1, 1, 2, 3>>
AdminPhone == <<0, 9, 9, 9, 9, 9, 9, 9, 9, 9, 9>>

Config(otpT, t, admin, contact, override, hasAppt, active) ==
    [otpTemplateId |-> otpT, templateId |-> t, adminPhone |-> admin,
     primaryContact |-> contact, otpMobileNumber |-> override,
     apptExists |-> hasAppt, clientActive |-> active]

\* the deployments explored: MSG91_OTP_TEMPLATE_ID and MSG91_TEMPLATE_ID set
\* or not, the admin_phone setting, the client's primary contact, the
\* alternate OTP phone of the appointment (updateAppointment stores it as
\* sent), and the rows of the
\* database: the appointment a1 of a client that has since been deactivated,
\* or an active client without appointments
Configs ==
    { Config(TRUE, TRUE, AdminPhone, ValidPhone, NoText, TRUE, FALSE),
      Config(FALSE, FALSE, NoText, BlankPhone, PrettyPhone, TRUE, FALSE),
      Config(TRUE, FALSE, NoText, MalformedPhone, NoText, TRUE, FALSE),
      Config(FALSE, TRUE, NoText, BlankPhone, NoText, TRUE, FALSE),
      Config(TRUE, TRUE, AdminPhone, ValidPhone, NoText, FALSE, TRUE),
      Config(FALSE, FALSE, NoText, ValidPhone, NoText, FALSE, TRUE),
      Config(TRUE, FALSE, AdminPhone, MalformedPhone, NoText, FALSE, TRUE) }

\* the clock advances explored: to either side of the end of the cooldown
\* and of the expiry of an OTP of the deployment sent at 0
Expiry0 == IF cfg.apptExists THEN getOTPExpiry(0) ELSE getWorkerVisitOTPExpiry(0)
TimeSteps == {CooldownPeriod - 1, CooldownPeriod, Expiry0, Expiry0 + 1}

\* the codes a caller may submit ('' is a missing otp field)
SubmittedCodes == { generateOTP(OtpLength, d) : d \in RandomDraws }
                     \cup {BypassCode, <<9, 9, 9, 9, 9, 9>>, NoText}

\* a request field that is absent from the body
Undefined == <<0 - 1>>

\* the bodies of PUT /appointments/:id explored
UpdateBodies ==
    { [purpose |-> <<Letter>>, otpMobileNumber |-> Undefined] }

\* the feedback texts explored: ten letters between spaces, nine letters
\* padded to eleven characters, nothing
GoodFeedback == <<Space>> \o [i \in 1..MinFeedback |-> Letter] \o <<Space>>
ShortFeedback == <<Space>> \o [i \in 1..(MinFeedback - 1) |-> Letter] \o <<Space>>
Feedbacks == {GoodFeedback, ShortFeedback, NoText}

\* the two resend requests that may be in service at once, and where each
\* is in its handler: not arrived, at the gateway after the row was read and
\* the cooldown passed, at the update after the delivery, answered; seq is
\* the place of the request's delivery among the deliveries the gateway
\* completed (0 before it)
Requests == {"r1", "r2"}
InService(pc, op, row, otp, expiry, code) ==
    [pc |-> pc, op |-> op, row |-> row, otp |-> otp, expiry |-> expiry, code |-> code,
     seq |-> 0]
Waiting == InService("waiting", "none", <<>>, NoText, NoTime, 0)

\* a request in service has parameters and a body; none is in service
NoRequest == [id |-> NoId]

\* the response of the request served by the last step, with that request
Response(op, code, error) ==
    [op |-> op, code |-> code, error |-> error, details |-> "",
     calls |-> <<>>, verifyCalls |-> 0, retryAfter |-> 0,
     attemptsRemaining |-> 0 - 1, req |-> NoRequest]

NoResponse == Response("none", 0, "")

InitRows ==
    /\ now = 0
    /\ ticks = 0
    /\ cfg \in Configs
    /\ appt = [id |-> "a1", engineerId |-> "e1", status |-> "SCHEDULED",
               purpose |-> NoText, otpMobileNumber |-> cfg.otpMobileNumber,
               otp |-> NoText, otpExpiresAt |-> NoTime, otpSentAt |-> NoTime,
               otpAttempts |-> 0, verifiedAt |-> NoTime, feedback |-> NoText]
    /\ visit = [exists |-> FALSE, id |-> "v1", engineerId |-> "e1", status |-> "PENDING",
                otp |-> NoText, otpExpiresAt |-> NoTime, otpSentAt |-> NoTime,
                verifiedAt |-> NoTime, workerCount |-> NoCount, remarks |-> NoText]
    /\ tokens = {}
    /\ consumed = {}
    /\ smsLog = <<>>
    /\ resp = NoResponse
    /\ inflight = [p \in Requests |-> Waiting]

Init == InitRows /\ resendAt = Untracked /\ wrongCodes = Untracked

\* the same, keeping the history of resend requests
InitResend == InitRows /\ resendAt = NoTime /\ wrongCodes = Untracked

\* the same, keeping the count of wrong codes
InitVisit == InitRows /\ resendAt = Untracked /\ wrongCodes = 0

\* time passes between two requests
Tick ==
    /\ resp = NoResponse
    /\ ticks < MaxTicks
    /\ \E d \in TimeSteps : now' = now + d
    /\ ticks' = ticks + 1
    /\ UNCHANGED <<cfg, appt, visit, tokens, consumed, resendAt, wrongCodes, smsLog, resp,
                 inflight>>

\* the response is sent and the request/response cycle ends
Reply ==
    /\ resp # NoResponse
    /\ resp' = NoResponse
    /\ UNCHANGED <<now, ticks, cfg, appt, visit, tokens, consumed, resendAt, wrongCodes,
                 smsLog, inflight>>

----
(* Widget Token Issuer/Verifier (utils/jwt.ts).  A token is its claim set  *)
(* with the key that signed it; exp is in seconds, as jsonwebtoken keeps   *)
(* it.                                                                     *)

Seconds(t) == t \div 1000

generateMSG91OTPToken(phone, appointmentId, visitId, purpose, expiresIn) ==
    [phone |-> phone, appointmentId |-> appointmentId, visitId |-> visitId,
     purpose |-> purpose, exp |-> Seconds(now) + expiresIn, sig |-> "jwt.secret"]

\* variant: jwt.decode, which does not check the signature
verifyMSG91OTPTokenDecoded(token) ==
    IF Seconds(now) < token.exp THEN {token} ELSE {}

\* jwt.verify: the payload, or null (the empty set) when the signature is
\* not ours or the token has expired
verifyMSG91OTPToken(token) ==
    IF token.sig = "jwt.secret" /\ Seconds(now) < token.exp THEN {token} ELSE {}

\* a token signed with another key, and a login access token, which
\* generateAccessToken signs with the same config.jwt.secret
ForgedToken ==
    [phone |-> NoText, appointmentId |-> "a1", visitId |-> "v1",
     purpose |-> "appointment", exp |-> 2 * VisitTokenTtl, sig |-> "other"]
LoginToken ==
    [phone |-> NoText, appointmentId |-> NoId, visitId |-> NoId,
     purpose |-> "login", exp |-> 7 * VisitTokenTtl, sig |-> "jwt.secret"]

\* the access tokens a caller may present: the tokens issued, the two above,
\* and a token that generateMSG91OTPToken signed for the other flow (a
\* worker-visit token where the appointment is served, an appointment token
\* where the visit is served)
PresentedTokens ==
    tokens \cup {ForgedToken, LoginToken,
                 IF cfg.apptExists
                 THEN [phone |-> <<9, 1>> \o ValidPhone, appointmentId |-> NoId,
                       visitId |-> "v1", purpose |-> "worker_visit",
                       exp |-> 2 * VisitTokenTtl, sig |-> "jwt.secret"]
                 ELSE [phone |-> <<9, 1>> \o ValidPhone, appointmentId |-> "a1",
                       visitId |-> NoId, purpose |-> "appointment",
                       exp |-> 2 * VisitTokenTtl, sig |-> "jwt.secret"]}

\* what the provider's verifyAccessToken call produces: a response, or an
\* axios exception with (response = TRUE) or without a response body
VerifyOutcomes ==
    { [type |-> "success", message |-> "", response |-> TRUE],
      [type |-> "error", message |-> "otp not verified", response |-> TRUE],
      [type |-> "error", message |-> "", response |-> TRUE],
      [type |-> "throw", message |-> "invalid authkey", response |-> TRUE],
      [type |-> "throw", message |-> "", response |-> FALSE] }

----
(* Appointment OTP state machine (appointment.controller.ts).  A handler   *)
(* is an operator from the request to its outcome: the appointment row     *)
(* after it, the SMSLog rows it caused, the widget tokens it issued and    *)
(* its response; used holds the token a provider-confirmed verification    *)
(* was made with.                                                          *)

Outcome(a, rows, issued, r) ==
    [appt |-> a, rows |-> rows, issued |-> issued, used |-> {}, resp |-> r]

Reject(op, code, error) == Outcome(appt, <<>>, {}, Response(op, code, error))

\* variant: the client's primary contact is preferred to the alternate
RecipientPhonePrimaryFirst(a) ==
    IF cfg.primaryContact # NoText THEN cfg.primaryContact ELSE a.otpMobileNumber

\* appointment.otpMobileNumber || appointment.client.primaryContact
RecipientPhone(a) ==
    IF a.otpMobileNumber # NoText THEN a.otpMobileNumber ELSE cfg.primaryContact

\* phone: { contains: ... }
Contains(s, sub) ==
    \E i \in 1..(Len(s) + 1) :
        i + Len(sub) - 1 <= Len(s) /\ SubSeq(s, i, i + Len(sub) - 1) = sub

\* the error of the most recent failed row whose phone contains the
\* recipient's last 10 digits, else 'SMS service unavailable'
LastFailure(log, recipientPhone) ==
    LET hits == { i \in 1..Len(log) :
                    /\ log[i].status = "failed"
                    /\ Contains(log[i].phone, Last10(DigitsOf(recipientPhone))) }
        last == CHOOSE i \in hits : \A j \in hits : j <= i
    IN
    IF hits = {} \/ log[last].error = "" THEN "SMS service unavailable" ELSE log[last].error

\* variant: the attempts are not reset when a code is issued
IssueKeepingAttempts(op, otp, otpSent) ==
    Outcome([appt EXCEPT !.otp = otp, !.otpExpiresAt = getOTPExpiry(now),
                         !.otpSentAt = now, !.status = "OTP_SENT"],
            otpSent.rows, {},
            [Response(op, 200, "") EXCEPT !.calls = otpSent.calls])

Issue(op, otp, otpSent) ==
    Outcome([appt EXCEPT !.otp = otp, !.otpExpiresAt = getOTPExpiry(now),
                         !.otpSentAt = now, !.otpAttempts = 0, !.status = "OTP_SENT"],
            otpSent.rows, {},
            [Response(op, 200, "") EXCEPT !.calls = otpSent.calls])

sendOTPOutcome(id, userId, draw, outs) ==
    LET otp == generateOTP(OtpLength, draw)
        recipientPhone == RecipientPhone(appt)
        otpSent == sendVisitOTP(recipientPhone, otp, outs)
    IN
    IF ~cfg.apptExists \/ id # appt.id THEN Reject("send", 404, "Appointment not found")
    ELSE IF appt.engineerId # userId THEN Reject("send", 403, "Access denied")
    ELSE IF appt.status = "COMPLETED"
    THEN Reject("send", 400, "Appointment already completed")
    ELSE IF Trim(recipientPhone) = <<>>
    THEN Reject("send", 400, "Client phone number is missing")
    ELSE IF ~otpSent.ok
    THEN Outcome(appt, otpSent.rows, {},
                 [Response("send", 500, "Failed to send OTP")
                     EXCEPT !.calls = otpSent.calls])
    ELSE Issue("send", otp, otpSent)

\* Date.now() - otpSentAt < cooldownPeriod
InCooldown(otpSentAt) == otpSentAt # NoTime /\ now - otpSentAt < CooldownPeriod

\* variant: Math.floor in the place of Math.ceil
RemainingSecondsFloor(otpSentAt) == (CooldownPeriod - (now - otpSentAt)) \div 1000

\* Math.ceil((cooldownPeriod - timeSinceLastOTP) / 1000)
RemainingSeconds(otpSentAt) == CeilDiv(CooldownPeriod - (now - otpSentAt), 1000)

resendOTPOutcome(id, userId, draw, outs) ==
    LET otp == generateOTP(OtpLength, draw)
        recipientPhone == RecipientPhone(appt)
        otpSent == sendVisitOTP(recipientPhone, otp, outs)
    IN
    IF ~cfg.apptExists \/ id # appt.id THEN Reject("resend", 404, "Appointment not found")
    ELSE IF appt.engineerId # userId THEN Reject("resend", 403, "Access denied")
    ELSE IF appt.status = "COMPLETED"
    THEN Reject("resend", 400, "Appointment already completed")
    ELSE IF InCooldown(appt.otpSentAt)
    THEN Outcome(appt, <<>>, {},
                 [Response("resend", 429, "Please wait before requesting a new OTP")
                     EXCEPT !.retryAfter = RemainingSeconds(appt.otpSentAt)])
    ELSE IF Trim(recipientPhone) = <<>>
    THEN Reject("resend", 400, "Client phone number is missing")
    ELSE IF ~otpSent.ok
    THEN Outcome(appt, otpSent.rows, {},
                 [Response("resend", 500, "Failed to resend OTP")
                     EXCEPT !.calls = otpSent.calls,
                            !.details = LastFailure(smsLog \o otpSent.rows, recipientPhone)])
    ELSE Issue("resend", otp, otpSent)

\* variant: the limit is reached one attempt late
AttemptsExceededLate(otpAttempts) == otpAttempts > MaxAttempts

\* variant: the limit is reached one attempt early
AttemptsExceededEarly(otpAttempts) == otpAttempts >= MaxAttempts - 1

\* appointment.otpAttempts >= 3
AttemptsExceeded(otpAttempts) == otpAttempts >= MaxAttempts

\* variant: the remaining attempts are counted from the limit
AttemptsRemainingOfLimit(otpAttempts) == MaxAttempts - otpAttempts

\* attemptsRemaining: 2 - appointment.otpAttempts
AttemptsRemaining(otpAttempts) == 2 - otpAttempts

verifyOTPOutcome(id, userId, otp) ==
    IF otp = NoText THEN Reject("verify", 400, "OTP is required")
    ELSE IF ~cfg.apptExists \/ id # appt.id THEN Reject("verify", 404, "Appointment not found")
    ELSE IF appt.engineerId # userId THEN Reject("verify", 403, "Access denied")
    ELSE IF appt.otp = NoText \/ appt.otpExpiresAt = NoTime
    THEN Reject("verify", 400, "OTP not sent yet")
    ELSE IF isOTPExpired(now, appt.otpExpiresAt) THEN Reject("verify", 400, "OTP has expired")
    ELSE IF AttemptsExceeded(appt.otpAttempts)
    THEN Reject("verify", 400, "Maximum OTP attempts exceeded")
    ELSE IF appt.otp # otp /\ otp # BypassCode
    THEN Outcome([appt EXCEPT !.otpAttempts = appt.otpAttempts + 1], <<>>, {},
                 [Response("verify", 400, "Invalid OTP")
                     EXCEPT !.attemptsRemaining = AttemptsRemaining(appt.otpAttempts)])
    ELSE Outcome([appt EXCEPT !.status = "VERIFIED", !.verifiedAt = now,
                              !.otpAttempts = appt.otpAttempts + 1],
                 <<>>, {}, Response("verify", 200, ""))

generateOTPWidgetTokenOutcome(id, userId) ==
    LET recipientPhone == RecipientPhone(appt)
        normalizedPhone == normalizePhoneNumber(recipientPhone)
        widgetToken == generateMSG91OTPToken(normalizedPhone, appt.id, NoId,
                                             "appointment", ApptTokenTtl)
    IN
    IF ~cfg.apptExists \/ id # appt.id
    THEN Reject("widget-token", 404, "Appointment not found")
    ELSE IF appt.engineerId # userId THEN Reject("widget-token", 403, "Access denied")
    ELSE IF appt.status = "COMPLETED"
    THEN Reject("widget-token", 400, "Appointment already completed")
    ELSE IF Trim(recipientPhone) = <<>>
    THEN Reject("widget-token", 400, "Client phone number is missing")
    ELSE IF normalizedPhone = NoText
    THEN Reject("widget-token", 400, "Invalid phone number format")
    ELSE Outcome(appt, <<>>, {widgetToken}, Response("widget-token", 200, ""))

\* the error of the catch block when the exception carries no response
CatchError(op) ==
    IF op = "widget-verify" THEN "Failed to verify OTP" ELSE "Failed to submit worker count"

\* variant: the provider's message is dropped
ProviderRefusalGeneric(op, out) ==
    IF out.response
    THEN [Response(op, 400, "OTP verification failed")
             EXCEPT !.verifyCalls = 1, !.details = "Invalid OTP"]
    ELSE [Response(op, 500, CatchError(op)) EXCEPT !.verifyCalls = 1]

\* the response of the catch block and of the provider's own refusal
ProviderRefusal(op, out) ==
    IF out.response
    THEN [Response(op, 400, "OTP verification failed")
             EXCEPT !.verifyCalls = 1,
                    !.details = IF out.message # "" THEN out.message ELSE "Invalid OTP"]
    ELSE [Response(op, 500, CatchError(op)) EXCEPT !.verifyCalls = 1]

\* variant: the token's appointment is not compared with the path's
verifyOTPWithWidgetOutcomeUnbound(id, userId, accessToken, out) ==
    LET tokenPayload == verifyMSG91OTPToken(accessToken) IN
    IF tokenPayload = {}
    THEN Reject("widget-verify", 400, "Invalid or expired access token")
    ELSE IF out.type # "success"
    THEN Outcome(appt, <<>>, {}, ProviderRefusal("widget-verify", out))
    ELSE IF ~cfg.apptExists \/ id # appt.id
    THEN Outcome(appt, <<>>, {},
                 [Response("widget-verify", 404, "Appointment not found")
                     EXCEPT !.verifyCalls = 1])
    ELSE IF appt.engineerId # userId
    THEN Outcome(appt, <<>>, {},
                 [Response("widget-verify", 403, "Access denied") EXCEPT !.verifyCalls = 1])
    ELSE [Outcome([appt EXCEPT !.status = "VERIFIED", !.verifiedAt = now,
                               !.otpAttempts = 0],
                  <<>>, {},
                  [Response("widget-verify", 200, "") EXCEPT !.verifyCalls = 1])
             EXCEPT !.used = {accessToken}]

verifyOTPWithWidgetOutcome(id, userId, accessToken, out) ==
    LET tokenPayload == verifyMSG91OTPToken(accessToken) IN
    IF tokenPayload = {} \/ accessToken.appointmentId # id
    THEN Reject("widget-verify", 400, "Invalid or expired access token")
    ELSE IF out.type # "success"
    THEN Outcome(appt, <<>>, {}, ProviderRefusal("widget-verify", out))
    ELSE IF ~cfg.apptExists \/ id # appt.id
    THEN Outcome(appt, <<>>, {},
                 [Response("widget-verify", 404, "Appointment not found")
                     EXCEPT !.verifyCalls = 1])
    ELSE IF appt.engineerId # userId
    THEN Outcome(appt, <<>>, {},
                 [Response("widget-verify", 403, "Access denied") EXCEPT !.verifyCalls = 1])
    ELSE [Outcome([appt EXCEPT !.status = "VERIFIED", !.verifiedAt = now,
                               !.otpAttempts = 0],
                  <<>>, {},
                  [Response("widget-verify", 200, "") EXCEPT !.verifyCalls = 1])
             EXCEPT !.used = {accessToken}]

\* variant: the ownership check is left out
submitFeedbackOutcomeUnowned(id, userId, feedback) ==
    IF feedback = NoText \/ Len(Trim(feedback)) < MinFeedback
    THEN Reject("feedback", 400, "Feedback must be at least 10 characters")
    ELSE IF ~cfg.apptExists \/ id # appt.id
    THEN Reject("feedback", 404, "Appointment not found")
    ELSE IF appt.status # "VERIFIED"
    THEN Reject("feedback", 400, "Appointment must be verified first")
    ELSE Outcome([appt EXCEPT !.feedback = Trim(feedback), !.status = "COMPLETED"],
                 <<>>, {}, Response("feedback", 200, ""))

submitFeedbackOutcome(id, userId, feedback) ==
    IF feedback = NoText \/ Len(Trim(feedback)) < MinFeedback
    THEN Reject("feedback", 400, "Feedback must be at least 10 characters")
    ELSE IF ~cfg.apptExists \/ id # appt.id
    THEN Reject("feedback", 404, "Appointment not found")
    ELSE IF appt.engineerId # userId THEN Reject("feedback", 403, "Access denied")
    ELSE IF appt.status # "VERIFIED"
    THEN Reject("feedback", 400, "Appointment must be verified first")
    ELSE Outcome([appt EXCEPT !.feedback = Trim(feedback), !.status = "COMPLETED"],
                 <<>>, {}, Response("feedback", 200, ""))

cancelAppointmentOutcome(id) ==
    IF ~cfg.apptExists \/ id # appt.id THEN Reject("cancel", 404, "Appointment not found")
    ELSE IF appt.status = "COMPLETED"
    THEN Reject("cancel", 400, "Cannot cancel completed appointment")
    ELSE Outcome([appt EXCEPT !.status = "CANCELLED"], <<>>, {}, Response("cancel", 200, ""))

\* a field of the update is written unless the body leaves it undefined
Written(old, new) == IF new = Undefined THEN old ELSE new

updateAppointmentOutcome(id, body) ==
    IF ~cfg.apptExists \/ id # appt.id THEN Reject("update", 404, "Appointment not found")
    ELSE IF appt.status = "COMPLETED"
    THEN Reject("update", 400, "Cannot update completed appointment")
    ELSE Outcome([appt EXCEPT !.purpose = Written(appt.purpose, body.purpose),
                              !.otpMobileNumber =
                                  Written(appt.otpMobileNumber, body.otpMobileNumber)],
                 <<>>, {}, Response("update", 200, ""))

\* the arrival time of the last resend request its entity's owner made
Resent(r) ==
    IF resendAt # Untracked /\ r.op \in {"resend", "resend-visit"} /\ r.code \notin {403, 404}
    THEN now ELSE resendAt

\* one appointment request served, from its arrival to its response: the
\* row, the log and the response are written as the handler left them
Serve(o, request) ==
    /\ resp = NoResponse
    /\ o.rows = <<>> \/ Len(smsLog) < MaxLog
    /\ Cardinality(tokens \cup o.issued) <= MaxTokens
    /\ appt' = o.appt
    /\ smsLog' = smsLog \o o.rows
    /\ tokens' = tokens \cup o.issued
    /\ consumed' = consumed \cup o.used
    /\ resendAt' = Resent(o.resp)
    /\ resp' = [o.resp EXCEPT !.req = request]
    /\ UNCHANGED <<now, ticks, cfg, visit, wrongCodes, inflight>>

sendOTP(id, userId, draw, outs) ==
    Serve(sendOTPOutcome(id, userId, draw, outs),
          [id |-> id, userId |-> userId, draw |-> draw, outs |-> outs])

resendOTP(id, userId, draw, outs) ==
    Serve(resendOTPOutcome(id, userId, draw, outs),
          [id |-> id, userId |-> userId, draw |-> draw, outs |-> outs])

verifyOTP(id, userId, otp) ==
    Serve(verifyOTPOutcome(id, userId, otp), [id |-> id, userId |-> userId, otp |-> otp])

generateOTPWidgetToken(id, userId) ==
    Serve(generateOTPWidgetTokenOutcome(id, userId), [id |-> id, userId |-> userId])

verifyOTPWithWidget(id, userId, accessToken, out) ==
    Serve(verifyOTPWithWidgetOutcome(id, userId, accessToken, out),
          [id |-> id, userId |-> userId, accessToken |-> accessToken, out |-> out])

submitFeedback(id, userId, feedback) ==
    Serve(submitFeedbackOutcome(id, userId, feedback),
          [id |-> id, userId |-> userId, feedback |-> feedback])

cancelAppointment(id) == Serve(cancelAppointmentOutcome(id), [id |-> id])

updateAppointment(id, body) == Serve(updateAppointmentOutcome(id, body), [id |-> id, body |-> body])

----
(* Worker-Visit OTP state machine (workerVisit.controller.ts).  The model  *)
(* follows the first visit created, v1.                                    *)

VisitOutcome(v, rows, issued, r) ==
    [visit |-> v, rows |-> rows, issued |-> issued, used |-> {}, resp |-> r]

VisitReject(op, code, error) == VisitOutcome(visit, <<>>, {}, Response(op, code, error))

\* the body of POST /worker-visits that names the engineer e2
NamingBody == [clientId |-> "c1", visitDate |-> "2026-01-01", engineerId |-> "e2"]

\* the bodies of POST /worker-visits explored: complete, naming another
\* engineer, without a visit date, naming a client that does not exist
\* ('' is a missing field)
VisitBodies ==
    { [clientId |-> "c1", visitDate |-> "2026-01-01", engineerId |-> ""],
      NamingBody,
      [clientId |-> "c1", visitDate |-> "", engineerId |-> ""],
      [clientId |-> "c9", visitDate |-> "2026-01-01", engineerId |-> ""] }

\* the worker counts a caller may submit (0 is also a missing field)
WorkerCounts == {0, 0 - 2, 3, 12}

\* router.post('/', engineerOnly, ...): the middleware lets the caller through
engineerOnly(userId) == Role(userId) = "ENGINEER"

\* the two deliveries of a worker-visit OTP: to the client's primary
\* contact, then to the admin phone when one is configured
\* variant: the delivery counts only when both recipients were reached
DualDeliveryBoth(otp, outs) ==
    LET clientOtpSent == sendWorkerCountOTPToClient(cfg.primaryContact, otp, outs)
        adminOtpSent == sendWorkerCountOTPToAdmin(cfg.adminPhone, otp, outs.admin)
    IN
    IF cfg.adminPhone = NoText THEN clientOtpSent
    ELSE [ok |-> clientOtpSent.ok /\ adminOtpSent.ok,
          rows |-> clientOtpSent.rows \o adminOtpSent.rows,
          calls |-> clientOtpSent.calls \o adminOtpSent.calls]

DualDelivery(otp, outs) ==
    LET clientOtpSent == sendWorkerCountOTPToClient(cfg.primaryContact, otp, outs)
        adminOtpSent == sendWorkerCountOTPToAdmin(cfg.adminPhone, otp, outs.admin)
    IN
    IF cfg.adminPhone = NoText THEN clientOtpSent
    ELSE [ok |-> clientOtpSent.ok,
          rows |-> clientOtpSent.rows \o adminOtpSent.rows,
          calls |-> clientOtpSent.calls \o adminOtpSent.calls]

createVisitOutcome(userId, userRole, body, draw, outs) ==
    LET otp == generateOTP(OtpLength, draw)
        sent == DualDelivery(otp, outs)
        targetEngineerId ==
            IF userRole = "ADMIN" /\ body.engineerId # "" THEN body.engineerId ELSE userId
    IN
    IF body.clientId = "" \/ body.visitDate = ""
    THEN VisitReject("create-visit", 400, "Client and visit date are required")
    ELSE IF body.clientId # "c1" \/ ~cfg.clientActive
    THEN VisitReject("create-visit", 404, "Client not found or inactive")
    ELSE IF targetEngineerId \notin ActiveEngineers
    THEN VisitReject("create-visit", 404, "Engineer not found or inactive")
    ELSE VisitOutcome([exists |-> TRUE, id |-> "v1", engineerId |-> targetEngineerId,
                       status |-> "PENDING", otp |-> otp,
                       otpExpiresAt |-> getWorkerVisitOTPExpiry(now), otpSentAt |-> now,
                       verifiedAt |-> NoTime, workerCount |-> NoCount, remarks |-> NoText],
                      sent.rows, {},
                      [Response("create-visit", 201, "") EXCEPT !.calls = sent.calls])

resendVisitOTPOutcome(id, userId, draw, outs) ==
    LET otp == generateOTP(OtpLength, draw)
        sent == DualDelivery(otp, outs)
    IN
    IF ~visit.exists \/ id # visit.id THEN VisitReject("resend-visit", 404, "Visit not found")
    ELSE IF visit.engineerId # userId THEN VisitReject("resend-visit", 403, "Access denied")
    ELSE IF visit.status = "COMPLETED"
    THEN VisitReject("resend-visit", 400, "Worker count already submitted for this visit")
    ELSE IF InCooldown(visit.otpSentAt)
    THEN VisitOutcome(visit, <<>>, {},
                      [Response("resend-visit", 429, "Please wait before requesting a new OTP")
                          EXCEPT !.retryAfter = RemainingSeconds(visit.otpSentAt)])
    ELSE IF ~sent.ok
    THEN VisitOutcome(visit, sent.rows, {},
                      [Response("resend-visit", 500, "Failed to resend OTP")
                          EXCEPT !.calls = sent.calls])
    ELSE VisitOutcome([visit EXCEPT !.otp = otp,
                                    !.otpExpiresAt = getWorkerVisitOTPExpiry(now),
                                    !.otpSentAt = now, !.status = "PENDING"],
                      sent.rows, {},
                      [Response("resend-visit", 200, "") EXCEPT !.calls = sent.calls])

generateVisitOTPWidgetTokenOutcome(id, userId) ==
    LET normalizedPhone == normalizePhoneNumber(cfg.primaryContact)
        widgetToken == generateMSG91OTPToken(normalizedPhone, NoId, visit.id,
                                             "worker_visit", VisitTokenTtl)
    IN
    IF ~visit.exists \/ id # visit.id
    THEN VisitReject("visit-widget-token", 404, "Visit not found")
    ELSE IF visit.engineerId # userId
    THEN VisitReject("visit-widget-token", 403, "Access denied")
    ELSE IF visit.status = "COMPLETED"
    THEN VisitReject("visit-widget-token", 400,
                     "Worker count already submitted for this visit")
    ELSE IF normalizedPhone = NoText
    THEN VisitReject("visit-widget-token", 400, "Invalid client phone number format")
    ELSE VisitOutcome(visit, <<>>, {widgetToken}, Response("visit-widget-token", 200, ""))

\* variant: the verification time is not stamped
CountedUnstamped(workerCount, remarks) ==
    [visit EXCEPT !.workerCount = workerCount, !.remarks = remarks,
                  !.status = "OTP_VERIFIED"]

\* workerCount, remarks, status and verifiedAt as both submit handlers write them
Counted(workerCount, remarks) ==
    [visit EXCEPT !.workerCount = workerCount, !.remarks = remarks,
                  !.status = "OTP_VERIFIED", !.verifiedAt = now]

submitWorkerCountWithWidgetOutcome(id, userId, accessToken, workerCount, out) ==
    LET tokenPayload == verifyMSG91OTPToken(accessToken)
        called(code, error) == [Response("visit-widget-verify", code, error)
                                   EXCEPT !.verifyCalls = 1]
    IN
    IF workerCount = 0
    THEN VisitReject("visit-widget-verify", 400, "Access token and worker count are required")
    ELSE IF workerCount <= 0
    THEN VisitReject("visit-widget-verify", 400, "Worker count must be positive")
    ELSE IF tokenPayload = {} \/ accessToken.visitId # id
    THEN VisitReject("visit-widget-verify", 400, "Invalid or expired access token")
    ELSE IF out.type # "success"
    THEN VisitOutcome(visit, <<>>, {}, ProviderRefusal("visit-widget-verify", out))
    ELSE IF ~visit.exists \/ id # visit.id
    THEN VisitOutcome(visit, <<>>, {}, called(404, "Visit not found"))
    ELSE IF visit.engineerId # userId
    THEN VisitOutcome(visit, <<>>, {}, called(403, "Access denied"))
    ELSE IF visit.status = "COMPLETED"
    THEN VisitOutcome(visit, <<>>, {},
                      called(400, "Worker count already submitted for this visit"))
    ELSE [VisitOutcome(Counted(workerCount, <<Letter>>), <<>>, {}, called(200, ""))
             EXCEPT !.used = {accessToken}]

\* variant: a wrong code invalidates the stored one
submitWorkerCountOutcomeBurning(id, userId, otp, workerCount) ==
    IF otp = NoText \/ workerCount = 0
    THEN VisitReject("submit-count", 400, "OTP and worker count are required")
    ELSE IF workerCount <= 0
    THEN VisitReject("submit-count", 400, "Worker count must be positive")
    ELSE IF ~visit.exists \/ id # visit.id THEN VisitReject("submit-count", 404, "Visit not found")
    ELSE IF visit.engineerId # userId THEN VisitReject("submit-count", 403, "Access denied")
    ELSE IF visit.status = "COMPLETED"
    THEN VisitReject("submit-count", 400, "Worker count already submitted for this visit")
    ELSE IF visit.otpExpiresAt = NoTime \/ isOTPExpired(now, visit.otpExpiresAt)
    THEN VisitReject("submit-count", 400, "OTP has expired. Please create a new visit.")
    ELSE IF visit.otp # otp /\ otp # BypassCode
    THEN VisitOutcome([visit EXCEPT !.otp = NoText], <<>>, {},
                      Response("submit-count", 400, "Invalid OTP"))
    ELSE VisitOutcome(Counted(workerCount, <<Letter>>), <<>>, {},
                      Response("submit-count", 200, ""))

submitWorkerCountOutcome(id, userId, otp, workerCount) ==
    IF otp = NoText \/ workerCount = 0
    THEN VisitReject("submit-count", 400, "OTP and worker count are required")
    ELSE IF workerCount <= 0
    THEN VisitReject("submit-count", 400, "Worker count must be positive")
    ELSE IF ~visit.exists \/ id # visit.id THEN VisitReject("submit-count", 404, "Visit not found")
    ELSE IF visit.engineerId # userId THEN VisitReject("submit-count", 403, "Access denied")
    ELSE IF visit.status = "COMPLETED"
    THEN VisitReject("submit-count", 400, "Worker count already submitted for this visit")
    ELSE IF visit.otpExpiresAt = NoTime \/ isOTPExpired(now, visit.otpExpiresAt)
    THEN VisitReject("submit-count", 400, "OTP has expired. Please create a new visit.")
    ELSE IF visit.otp # otp /\ otp # BypassCode
    THEN VisitReject("submit-count", 400, "Invalid OTP")
    ELSE VisitOutcome(Counted(workerCount, <<Letter>>), <<>>, {},
                      Response("submit-count", 200, ""))

\* the wrong codes refused so far, when the run counts them
Miscounted(r) ==
    IF wrongCodes # Untracked /\ wrongCodes < MaxWrong
       /\ r.op = "submit-count" /\ r.error = "Invalid OTP"
    THEN wrongCodes + 1 ELSE wrongCodes

\* one worker-visit request served, from its arrival to its response
ServeVisit(o, request) ==
    /\ resp = NoResponse
    /\ o.rows = <<>> \/ Len(smsLog) < MaxVisitLog
    /\ Cardinality(tokens \cup o.issued) <= MaxTokens
    /\ visit' = o.visit
    /\ smsLog' = smsLog \o o.rows
    /\ tokens' = tokens \cup o.issued
    /\ consumed' = consumed \cup o.used
    /\ resendAt' = Resent(o.resp)
    /\ wrongCodes' = Miscounted(o.resp)
    /\ resp' = [o.resp EXCEPT !.req = request]
    /\ UNCHANGED <<now, ticks, cfg, appt, inflight>>

createVisit(userId, body, draw, outs) ==
    /\ ~visit.exists
    /\ ServeVisit(IF engineerOnly(userId)
                  THEN createVisitOutcome(userId, Role(userId), body, draw, outs)
                  ELSE VisitReject("create-visit", 403, "Engineer access required"),
                  [id |-> NoId, userId |-> userId, body |-> body, draw |-> draw,
                   outs |-> outs])

resendVisitOTP(id, userId, draw, outs) ==
    ServeVisit(resendVisitOTPOutcome(id, userId, draw, outs),
               [id |-> id, userId |-> userId, draw |-> draw, outs |-> outs])

generateVisitOTPWidgetToken(id, userId) ==
    ServeVisit(generateVisitOTPWidgetTokenOutcome(id, userId), [id |-> id, userId |-> userId])

submitWorkerCountWithWidget(id, userId, accessToken, workerCount, out) ==
    ServeVisit(submitWorkerCountWithWidgetOutcome(id, userId, accessToken, workerCount, out),
               [id |-> id, userId |-> userId, accessToken |-> accessToken,
                workerCount |-> workerCount, out |-> out])

submitWorkerCount(id, userId, otp, workerCount) ==
    ServeVisit(submitWorkerCountOutcome(id, userId, otp, workerCount),
               [id |-> id, userId |-> userId, otp |-> otp, workerCount |-> workerCount])

----
(* The requests explored *)

\* the path id and the caller of the requests explored: the owner's
\* request with every payload; a stranger's request and a request for an id
\* that resolves to nothing with the payload that would do most, the first
\* draw delivered at once, the bypass code, the engineer's own token
OwnerCalls(id, userId, row) == id = row.id /\ userId = row.engineerId

PlainDraw == CHOOSE d \in RandomDraws : d[1] = 0 /\ d[2] = 0

AllDelivered == Outcomes(Success, Success, Success, Success)

Confirmed == [type |-> "success", message |-> "", response |-> TRUE]

Issuing(owner, draw, outs) == owner \/ (draw = PlainDraw /\ outs = AllDelivered)

\* an engineer creates a visit with every payload; the admin's request is the
\* one naming an engineer, the first draw delivered at once
Creating(userId, body, draw, outs) ==
    userId \in Engineers \/ (body = NamingBody /\ draw = PlainDraw /\ outs = AllDelivered)

\* the caller names the row and is not its engineer
Stranger(id, userId, row) == id = row.id /\ userId # row.engineerId

\* the requests of the runs that probe the ownership checks: a stranger's
\* request with every payload, every other request with the plain payload
Probing(stranger, plain) == stranger \/ plain

\* a deployment is sent the requests of the flows its rows belong to
Appointments == cfg.apptExists

Visits == cfg.clientActive

NextAppointment ==
    \/ \E id \in ApptIds, userId \in Engineers, draw \in RandomDraws,
          outs \in DeliveryOutcomes :
          /\ Appointments /\ Issuing(OwnerCalls(id, userId, appt), draw, outs)
          /\ sendOTP(id, userId, draw, outs)
    \/ \E id \in ApptIds, userId \in Engineers, draw \in RandomDraws,
          outs \in DeliveryOutcomes :
          /\ Appointments /\ Issuing(OwnerCalls(id, userId, appt), draw, outs)
          /\ resendOTP(id, userId, draw, outs)
    \/ \E id \in ApptIds, userId \in Engineers, otp \in SubmittedCodes :
          /\ Appointments /\ (OwnerCalls(id, userId, appt) \/ otp = BypassCode)
          /\ verifyOTP(id, userId, otp)
    \/ \E id \in ApptIds, userId \in Engineers, feedback \in Feedbacks :
          /\ Appointments /\ (OwnerCalls(id, userId, appt) \/ feedback = GoodFeedback)
          /\ submitFeedback(id, userId, feedback)
    \/ \E id \in ApptIds : Appointments /\ cancelAppointment(id)
    \/ \E id \in ApptIds, body \in UpdateBodies : Appointments /\ updateAppointment(id, body)

NextAppointmentWidget ==
    \/ \E id \in ApptIds, userId \in Engineers :
          Appointments /\ generateOTPWidgetToken(id, userId)
    \/ \E id \in ApptIds, userId \in Engineers, accessToken \in PresentedTokens,
          out \in VerifyOutcomes :
          /\ Appointments
          /\ OwnerCalls(id, userId, appt) \/ (accessToken \in tokens /\ out = Confirmed)
          /\ verifyOTPWithWidget(id, userId, accessToken, out)
    \/ \E id \in ApptIds, userId \in Engineers, draw \in RandomDraws,
          outs \in DeliveryOutcomes :
          /\ Appointments /\ Issuing(OwnerCalls(id, userId, appt), draw, outs)
          /\ sendOTP(id, userId, draw, outs)
    \/ \E id \in ApptIds, userId \in Engineers, feedback \in Feedbacks :
          /\ Appointments /\ (OwnerCalls(id, userId, appt) \/ feedback = GoodFeedback)
          /\ submitFeedback(id, userId, feedback)
    \/ \E id \in ApptIds : Appointments /\ cancelAppointment(id)

NextVisit ==
    \/ \E userId \in Engineers \cup Admins, body \in VisitBodies, draw \in RandomDraws,
          outs \in DeliveryOutcomes :
          /\ Visits /\ Creating(userId, body, draw, outs)
          /\ createVisit(userId, body, draw, outs)
    \/ \E id \in VisitIds, userId \in Engineers, draw \in RandomDraws,
          outs \in DeliveryOutcomes :
          /\ Visits /\ Issuing(OwnerCalls(id, userId, visit), draw, outs)
          /\ resendVisitOTP(id, userId, draw, outs)
    \/ \E id \in VisitIds, userId \in Engineers, otp \in SubmittedCodes,
          workerCount \in WorkerCounts :
          /\ Visits
          /\ OwnerCalls(id, userId, visit) \/ (otp = BypassCode /\ workerCount = 3)
          /\ submitWorkerCount(id, userId, otp, workerCount)

NextVisitWidget ==
    \/ \E userId \in Engineers \cup Admins, body \in VisitBodies, draw \in RandomDraws,
          outs \in DeliveryOutcomes :
          /\ Visits /\ Creating(userId, body, draw, outs)
          /\ createVisit(userId, body, draw, outs)
    \/ \E id \in VisitIds, userId \in Engineers :
          Visits /\ generateVisitOTPWidgetToken(id, userId)
    \/ \E id \in VisitIds, userId \in Engineers, accessToken \in PresentedTokens,
          workerCount \in WorkerCounts, out \in VerifyOutcomes :
          /\ Visits
          /\ \/ OwnerCalls(id, userId, visit)
             \/ (accessToken \in tokens /\ workerCount = 3 /\ out = Confirmed)
          /\ submitWorkerCountWithWidget(id, userId, accessToken, workerCount, out)

Next == Tick \/ Reply \/ NextAppointment \/ NextVisit

NextWidget == Tick \/ Reply \/ NextAppointmentWidget \/ NextVisitWidget

NextVisitAll ==
    \/ Tick
    \/ Reply
    \/ \E userId \in Engineers \cup Admins, body \in VisitBodies, draw \in RandomDraws,
          outs \in DeliveryOutcomes :
          /\ Visits /\ Creating(userId, body, draw, outs) /\ outs = AllDelivered
          /\ createVisit(userId, body, draw, outs)
    \/ \E id \in VisitIds, userId \in Engineers, otp \in SubmittedCodes,
          workerCount \in WorkerCounts :
          /\ Visits
          /\ OwnerCalls(id, userId, visit) \/ (otp = BypassCode /\ workerCount = 3)
          /\ submitWorkerCount(id, userId, otp, workerCount)
    \/ \E id \in VisitIds, userId \in Engineers :
          Visits /\ generateVisitOTPWidgetToken(id, userId)
    \/ \E id \in VisitIds, userId \in Engineers, accessToken \in PresentedTokens,
          workerCount \in WorkerCounts, out \in VerifyOutcomes :
          /\ Visits
          /\ accessToken \in tokens \cup {ForgedToken, LoginToken}
          /\ \/ OwnerCalls(id, userId, visit)
             \/ (accessToken \in tokens /\ workerCount = 3 /\ out = Confirmed)
          /\ submitWorkerCountWithWidget(id, userId, accessToken, workerCount, out)

NextAccess ==
    \/ Tick
    \/ Reply
    \/ \E id \in ApptIds, userId \in Engineers, draw \in RandomDraws,
          outs \in DeliveryOutcomes :
          /\ Appointments
          /\ Probing(Stranger(id, userId, appt), draw = PlainDraw /\ outs = AllDelivered)
          /\ sendOTP(id, userId, draw, outs)
    \/ \E id \in ApptIds, userId \in Engineers, draw \in RandomDraws,
          outs \in DeliveryOutcomes :
          /\ Appointments
          /\ Probing(Stranger(id, userId, appt), draw = PlainDraw /\ outs = AllDelivered)
          /\ resendOTP(id, userId, draw, outs)
    \/ \E id \in ApptIds, userId \in Engineers, otp \in SubmittedCodes :
          /\ Appointments /\ Probing(Stranger(id, userId, appt), otp = BypassCode)
          /\ verifyOTP(id, userId, otp)
    \/ \E id \in ApptIds, userId \in Engineers :
          Appointments /\ generateOTPWidgetToken(id, userId)
    \/ \E id \in ApptIds, userId \in Engineers, accessToken \in PresentedTokens,
          out \in VerifyOutcomes :
          /\ Appointments
          /\ Probing(Stranger(id, userId, appt), accessToken \in tokens /\ out = Confirmed)
          /\ verifyOTPWithWidget(id, userId, accessToken, out)
    \/ \E id \in ApptIds, userId \in Engineers, feedback \in Feedbacks :
          /\ Appointments /\ Probing(Stranger(id, userId, appt), feedback = GoodFeedback)
          /\ submitFeedback(id, userId, feedback)
    \/ \E userId \in Engineers, body \in VisitBodies, draw \in RandomDraws,
          outs \in DeliveryOutcomes :
          /\ Visits /\ body = NamingBody /\ draw = PlainDraw /\ outs = AllDelivered
          /\ createVisit(userId, body, draw, outs)
    \/ \E id \in VisitIds, userId \in Engineers, draw \in RandomDraws,
          outs \in DeliveryOutcomes :
          /\ Visits
          /\ Probing(Stranger(id, userId, visit), draw = PlainDraw /\ outs = AllDelivered)
          /\ resendVisitOTP(id, userId, draw, outs)
    \/ \E id \in VisitIds, userId \in Engineers, otp \in SubmittedCodes,
          workerCount \in WorkerCounts :
          /\ Visits
          /\ Probing(Stranger(id, userId, visit), otp = BypassCode /\ workerCount = 3)
          /\ submitWorkerCount(id, userId, otp, workerCount)
    \/ \E id \in VisitIds, userId \in Engineers :
          Visits /\ generateVisitOTPWidgetToken(id, userId)
    \/ \E id \in VisitIds, userId \in Engineers, accessToken \in PresentedTokens,
          workerCount \in WorkerCounts, out \in VerifyOutcomes :
          /\ Visits
          /\ Probing(Stranger(id, userId, visit),
                     accessToken \in tokens /\ workerCount = 3 /\ out = Confirmed)
          /\ submitWorkerCountWithWidget(id, userId, accessToken, workerCount, out)

NextResend ==
    \/ Tick
    \/ Reply
    \/ \E id \in ApptIds, userId \in Engineers, draw \in RandomDraws,
          outs \in DeliveryOutcomes :
          /\ Appointments /\ Issuing(OwnerCalls(id, userId, appt), draw, outs)
          /\ sendOTP(id, userId, draw, outs)
    \/ \E id \in ApptIds, userId \in Engineers, draw \in RandomDraws,
          outs \in DeliveryOutcomes :
          /\ Appointments /\ Issuing(OwnerCalls(id, userId, appt), draw, outs)
          /\ resendOTP(id, userId, draw, outs)
    \/ \E id \in ApptIds : Appointments /\ cancelAppointment(id)
    \/ \E userId \in Engineers \cup Admins, body \in VisitBodies, draw \in RandomDraws,
          outs \in DeliveryOutcomes :
          /\ Visits /\ Creating(userId, body, draw, outs)
          /\ createVisit(userId, body, draw, outs)
    \/ \E id \in VisitIds, userId \in Engineers, draw \in RandomDraws,
          outs \in DeliveryOutcomes :
          /\ Visits /\ Issuing(OwnerCalls(id, userId, visit), draw, outs)
          /\ resendVisitOTP(id, userId, draw, outs)

\* the inline-code flows
Spec == Init /\ [][Next]_vars

\* the widget-token flows
SpecWidget == Init /\ [][NextWidget]_vars

\* the issuing flows, with the history of resend requests
SpecResend == InitResend /\ [][NextResend]_vars

\* every engineer route, called by the owner and by others
SpecAccess == Init /\ [][NextAccess]_vars

\* the worker-visit verifications, inline and widget, with the count of
\* wrong codes
SpecVisit == InitVisit /\ [][NextVisitAll]_vars

----
(* The SMS Gateway Client called directly: one step is one call of one of *)
(* its exported functions, for every recipient, provider outcome and      *)
(* log-write outcome explored.                                            *)

\* a ten-digit mobile number that begins with 91
TenDigits91 == <<9, 1, 2, 3, 4, 5, 6, 7, 8, 9>>

\* the recipients passed to the gateway: besides the phones of the
\* deployments, `98765-43210', `9123456789', `80987654321' and nothing
PhoneInputs ==
    {ValidPhone, PrettyPhone, <<9, 8, 7, 6, 5, 12, 4, 3, 2, 1, 0>>, TenDigits91, BlankPhone,
     MalformedPhone, AdminPhone, <<8, 0, 9, 8, 7, 6, 5, 4, 3, 2, 1>>, NoText}

CallOutcomes == { Logged(out, log) : out \in ProviderOutcomes, log \in LogOutcomes }

\* the log writes fail around at most one of the calls of a delivery
GatewayOutcomes ==
    { outs \in [otp : CallOutcomes, sms1 : CallOutcomes, retry : CallOutcomes,
                sms2 : CallOutcomes, admin : {Success}] :
        Cardinality({ k \in {"otp", "sms1", "retry", "sms2"} : outs[k].log # "ok" }) <= 1 }

\* the call returns (or raises) to its caller
Called(op, result, request) ==
    /\ resp = NoResponse
    /\ Len(smsLog) < MaxGatewayLog
    /\ smsLog' = smsLog \o result.rows
    /\ resp' = [op |-> op, ok |-> result.ok, raised |-> result.raised,
                rows |-> result.rows, calls |-> result.calls, req |-> request]
    /\ UNCHANGED <<now, ticks, cfg, appt, visit, tokens, consumed, resendAt, wrongCodes,
                 inflight>>

\* the function applied to an input, and applied again to what it returned;
\* the inputs are the recipients and `919876543210', `+91 98765 43210',
\* `9198765432109', `129876543210', `919123456789'
NormalizePhoneNumber ==
    \E phone \in PhoneInputs \cup { <<9, 1, 9, 8, 7, 6, 5, 4, 3, 2, 1, 0>>,
                                     <<10, 9, 1, 11, 9, 8, 7, 6, 5, 11, 4, 3, 2, 1, 0>>,
                                     <<9, 1, 9, 8, 7, 6, 5, 4, 3, 2, 1, 0, 9>>,
                                     <<1, 2, 9, 8, 7, 6, 5, 4, 3, 2, 1, 0>>,
                                     <<9, 1>> \o TenDigits91 } :
        /\ resp = NoResponse
        /\ resp' = [op |-> "normalizePhoneNumber", result |-> normalizePhoneNumber(phone),
                    again |-> normalizePhoneNumber(normalizePhoneNumber(phone)),
                    req |-> [to |-> phone]]
        /\ UNCHANGED <<now, ticks, cfg, appt, visit, tokens, consumed, resendAt, wrongCodes,
                     smsLog, inflight>>

SendSMS ==
    /\ resp = NoResponse
    /\ \E to \in PhoneInputs, out \in CallOutcomes :
        Called("sendSMS", sendSMS(to, "text", generateOTP(OtpLength, PlainDraw), out),
               [to |-> to, out |-> out])

SendOTPViaMSG91 ==
    /\ resp = NoResponse
    /\ \E to \in PhoneInputs, outs \in GatewayOutcomes :
        Called("sendOTPViaMSG91", sendOTPViaMSG91(to, generateOTP(OtpLength, PlainDraw), outs),
               [to |-> to, outs |-> outs])

SendVisitOTP ==
    /\ resp = NoResponse
    /\ \E to \in PhoneInputs, outs \in GatewayOutcomes :
        Called("sendVisitOTP", sendVisitOTP(to, generateOTP(OtpLength, PlainDraw), outs),
               [to |-> to, outs |-> outs])

SendWorkerCountOTPToClient ==
    /\ resp = NoResponse
    /\ \E to \in PhoneInputs, outs \in GatewayOutcomes :
        Called("sendWorkerCountOTPToClient",
               sendWorkerCountOTPToClient(to, generateOTP(OtpLength, PlainDraw), outs),
               [to |-> to, outs |-> outs])

SendWorkerCountOTPToAdmin ==
    /\ resp = NoResponse
    /\ \E to \in PhoneInputs, out \in CallOutcomes :
        Called("sendWorkerCountOTPToAdmin",
               sendWorkerCountOTPToAdmin(to, generateOTP(OtpLength, PlainDraw), out),
               [to |-> to, out |-> out])

NextGateway ==
    \/ NormalizePhoneNumber
    \/ SendSMS
    \/ SendOTPViaMSG91
    \/ SendVisitOTP
    \/ SendWorkerCountOTPToClient
    \/ SendWorkerCountOTPToAdmin
    \/ Reply

\* the gateway called directly
SpecGateway == Init /\ [][NextGateway]_vars

----
(* Two resend requests in service at once.  A handler runs to its next    *)
(* await without interruption: the row is read and the checks up to the   *)
(* cooldown are made in one step, the gateway delivers in another, the    *)
(* update is written in a third; steps of the other request may come      *)
(* between.                                                               *)

\* the responses sent before the gateway is called
EarlyCodes == {400, 403, 404, 429}

\* variant: the update is refused when the row shows a send within the
\* cooldown
resendUpdateGuarded(row, l) ==
    IF InCooldown(row.otpSentAt) THEN [code |-> 429, row |-> row]
    ELSE [code |-> 200,
          row |-> [row EXCEPT !.otp = l.otp, !.otpExpiresAt = l.expiry, !.otpSentAt = now,
                              !.otpAttempts = 0, !.status = "OTP_SENT"]]

\* prisma.appointment.update({ where: { id }, data: { ... } })
resendUpdate(row, l) ==
    [code |-> 200,
     row |-> [row EXCEPT !.otp = l.otp, !.otpExpiresAt = l.expiry, !.otpSentAt = now,
                         !.otpAttempts = 0, !.status = "OTP_SENT"]]

\* prisma.workerVisit.update({ where: { id }, data: { ... } })
resendVisitUpdate(row, l) ==
    [code |-> 200,
     row |-> [row EXCEPT !.otp = l.otp, !.otpExpiresAt = l.expiry, !.otpSentAt = now,
                         !.status = "PENDING"]]

Step(p, l) ==
    /\ inflight' = [inflight EXCEPT ![p] = l]
    /\ UNCHANGED <<now, ticks, cfg, tokens, consumed, resendAt, wrongCodes, resp>>

\* findUnique, then the checks down to the recipient
resendRead(p, draw) ==
    /\ cfg.apptExists
    /\ inflight[p].pc = "waiting"
    /\ LET early == resendOTPOutcome(appt.id, appt.engineerId, draw, AllDelivered).resp IN
       Step(p, IF early.code \in EarlyCodes
               THEN InService("answered", "resend", appt, NoText, NoTime, early.code)
               ELSE InService("gateway", "resend", appt, generateOTP(OtpLength, draw),
                              getOTPExpiry(now), 0))
    /\ UNCHANGED <<appt, visit, smsLog>>

\* await sendVisitOTP
resendDeliver(p, outs) ==
    /\ inflight[p].pc = "gateway"
    /\ inflight[p].op = "resend"
    /\ LET l == inflight[p]
           otpSent == sendVisitOTP(RecipientPhone(l.row), l.otp, outs)
       IN /\ smsLog' = smsLog \o otpSent.rows
          /\ Step(p, IF otpSent.ok
                     THEN [l EXCEPT !.pc = "update",
                                    !.seq = 1 + Cardinality({q \in Requests :
                                                                inflight[q].seq > 0})]
                     ELSE [l EXCEPT !.pc = "answered", !.code = 500])
    /\ UNCHANGED <<appt, visit>>

\* await prisma.appointment.update, then the response
resendWrite(p) ==
    /\ inflight[p].pc = "update"
    /\ inflight[p].op = "resend"
    /\ LET written == resendUpdate(appt, inflight[p]) IN
       /\ appt' = written.row
       /\ Step(p, [inflight[p] EXCEPT !.pc = "answered", !.code = written.code])
    /\ UNCHANGED <<visit, smsLog>>

resendVisitRead(p, draw) ==
    /\ visit.exists
    /\ inflight[p].pc = "waiting"
    /\ LET early == resendVisitOTPOutcome(visit.id, visit.engineerId, draw, AllDelivered).resp IN
       Step(p, IF early.code \in EarlyCodes
               THEN InService("answered", "resend-visit", visit, NoText, NoTime, early.code)
               ELSE InService("gateway", "resend-visit", visit, generateOTP(OtpLength, draw),
                              getWorkerVisitOTPExpiry(now), 0))
    /\ UNCHANGED <<appt, visit, smsLog>>

\* await sendWorkerCountOTPToClient, await sendWorkerCountOTPToAdmin
resendVisitDeliver(p, outs) ==
    /\ inflight[p].pc = "gateway"
    /\ inflight[p].op = "resend-visit"
    /\ LET l == inflight[p]
           sent == DualDelivery(l.otp, outs)
       IN /\ smsLog' = smsLog \o sent.rows
          /\ Step(p, IF sent.ok
                     THEN [l EXCEPT !.pc = "update",
                                    !.seq = 1 + Cardinality({q \in Requests :
                                                                inflight[q].seq > 0})]
                     ELSE [l EXCEPT !.pc = "answered", !.code = 500])
    /\ UNCHANGED <<appt, visit>>

resendVisitWrite(p) ==
    /\ inflight[p].pc = "update"
    /\ inflight[p].op = "resend-visit"
    /\ LET written == resendVisitUpdate(visit, inflight[p]) IN
       /\ visit' = written.row
       /\ Step(p, [inflight[p] EXCEPT !.pc = "answered", !.code = written.code])
    /\ UNCHANGED <<appt, smsLog>>

\* the first OTP is sent or the visit created by a request served alone;
\* then the resend requests arrive
NextRace ==
    \/ Tick
    \/ Reply
    \/ \E id \in ApptIds, userId \in Engineers :
          /\ Appointments /\ OwnerCalls(id, userId, appt) /\ appt.otpSentAt = NoTime
          /\ sendOTP(id, userId, PlainDraw, AllDelivered)
    \/ \E userId \in Engineers, body \in VisitBodies :
          /\ Visits /\ userId = "e1" /\ body.engineerId = ""
          /\ createVisit(userId, body, PlainDraw, AllDelivered)
    \/ \E p \in Requests, draw \in RandomDraws : resendRead(p, draw)
    \/ \E p \in Requests, outs \in DeliveryOutcomes : resendDeliver(p, outs)
    \/ \E p \in Requests : resendWrite(p)
    \/ \E p \in Requests, draw \in RandomDraws : resendVisitRead(p, draw)
    \/ \E p \in Requests, outs \in DeliveryOutcomes : resendVisitDeliver(p, outs)
    \/ \E p \in Requests : resendVisitWrite(p)

\* two resend requests in service at once
SpecRace == Init /\ [][NextRace]_vars

----
(* The appointment routes served from the lockout: a code was delivered at *)
(* instant 0 and three codes were compared with it, the last of them wrong *)
(* (OTP_SENT), right (VERIFIED), or followed by a cancellation.            *)

InitLocked ==
    /\ now = 0
    /\ ticks = 0
    /\ cfg \in {c \in Configs : c.apptExists}
    /\ \E status \in {"OTP_SENT", "VERIFIED", "CANCELLED"}, draw \in RandomDraws :
          appt = [id |-> "a1", engineerId |-> "e1", status |-> status,
                  purpose |-> NoText, otpMobileNumber |-> cfg.otpMobileNumber,
                  otp |-> generateOTP(OtpLength, draw), otpExpiresAt |-> getOTPExpiry(0),
                  otpSentAt |-> 0, otpAttempts |-> MaxAttempts,
                  verifiedAt |-> IF status = "VERIFIED" THEN 0 ELSE NoTime,
                  feedback |-> NoText]
    /\ sendVisitOTP(RecipientPhone(appt), appt.otp, AllDelivered).ok
    /\ smsLog = sendVisitOTP(RecipientPhone(appt), appt.otp, AllDelivered).rows
    /\ visit = [exists |-> FALSE, id |-> "v1", engineerId |-> "e1", status |-> "PENDING",
                otp |-> NoText, otpExpiresAt |-> NoTime, otpSentAt |-> NoTime,
                verifiedAt |-> NoTime, workerCount |-> NoCount, remarks |-> NoText]
    /\ tokens = {}
    /\ consumed = {}
    /\ resp = NoResponse
    /\ inflight = [p \in Requests |-> Waiting]
    /\ resendAt = NoTime
    /\ wrongCodes = Untracked

\* the routes that lead out of the lockout or end the appointment; no
\* first send is made again
NextLockout ==
    \/ Tick
    \/ Reply
    \/ \E id \in ApptIds, userId \in Engineers, draw \in RandomDraws,
          outs \in DeliveryOutcomes :
          /\ Issuing(OwnerCalls(id, userId, appt), draw, outs)
          /\ resendOTP(id, userId, draw, outs)
    \/ \E id \in ApptIds, userId \in Engineers, otp \in SubmittedCodes :
          /\ OwnerCalls(id, userId, appt) \/ otp = BypassCode
          /\ verifyOTP(id, userId, otp)
    \/ \E id \in ApptIds, userId \in Engineers, feedback \in Feedbacks :
          /\ OwnerCalls(id, userId, appt) \/ feedback = GoodFeedback
          /\ submitFeedback(id, userId, feedback)
    \/ \E id \in ApptIds : cancelAppointment(id)

\* the appointment served from the lockout, with the history of resend
\* requests
SpecLockout == InitLocked /\ [][NextLockout]_vars

----
(* Inline verifications of an appointment in service at once.  verifyOTP   *)
(* awaits twice: findUnique, after which the checks and the comparison of  *)
(* the code run without interruption, and the update.  A request slot is   *)
(* taken again by a new request once its request is answered.              *)

\* findUnique, the checks, and the comparison of the submitted code with
\* the stored one
verifyRead(p, otp) ==
    /\ cfg.apptExists
    /\ inflight[p].pc \in {"waiting", "answered"}
    /\ wrongCodes < MaxCompares
    /\ LET early == verifyOTPOutcome(appt.id, appt.engineerId, otp).resp IN
       /\ inflight' = [inflight EXCEPT ![p] =
                          IF early.error \in {"Invalid OTP", ""}
                          THEN InService("update", "verify", appt, otp, NoTime, 0)
                          ELSE InService("answered", "verify", appt, otp, NoTime,
                                         early.code)]
       /\ wrongCodes' = IF early.error = "Invalid OTP" THEN wrongCodes + 1 ELSE wrongCodes
    /\ UNCHANGED <<now, ticks, cfg, appt, visit, tokens, consumed, resendAt, smsLog, resp>>

\* await prisma.appointment.update with the attempts read plus one, then
\* the response
verifyWrite(p) ==
    /\ inflight[p].pc = "update"
    /\ inflight[p].op = "verify"
    /\ LET l == inflight[p]
           matched == l.row.otp = l.otp \/ l.otp = BypassCode
       IN /\ appt' = IF matched
                     THEN [appt EXCEPT !.status = "VERIFIED", !.verifiedAt = now,
                                       !.otpAttempts = l.row.otpAttempts + 1]
                     ELSE [appt EXCEPT !.otpAttempts = l.row.otpAttempts + 1]
          /\ inflight' = [inflight EXCEPT ![p] =
                             [l EXCEPT !.pc = "answered",
                                       !.code = IF matched THEN 200 ELSE 400]]
    /\ UNCHANGED <<now, ticks, cfg, visit, tokens, consumed, resendAt, wrongCodes, smsLog,
                 resp>>

\* one OTP is sent by a request served alone; then the verifications
\* arrive, with a wrong code or with the stored one
NextVerifyRace ==
    \/ Tick
    \/ Reply
    \/ \E id \in ApptIds, userId \in Engineers, draw \in RandomDraws :
          /\ Appointments /\ OwnerCalls(id, userId, appt) /\ appt.otpSentAt = NoTime
          /\ sendOTP(id, userId, draw, AllDelivered)
    \/ \E p \in Requests, otp \in {<<9, 9, 9, 9, 9, 9>>, appt.otp} : verifyRead(p, otp)
    \/ \E p \in Requests : verifyWrite(p)

\* concurrent inline verifications of one issued OTP, with the count of the
\* wrong codes compared
SpecVerifyRace == InitVisit /\ [][NextVerifyRace]_vars

----
(* Properties.  A step serves a request when it leaves the response of     *)
(* that request; the request's parameters are then in resp'.req.           *)

Served(op) == resp = NoResponse /\ resp'.op = op

\* the caller is the engineer of the appointment the path names
Owned(r) == cfg.apptExists /\ r.id = appt.id /\ r.userId = appt.engineerId

\* the caller is the engineer of the visit the path names
OwnedVisit(r) == visit.exists /\ r.id = visit.id /\ r.userId = visit.engineerId

Rank(status) ==
    CASE status = "SCHEDULED" -> 0
      [] status = "OTP_SENT" -> 1
      [] status = "VERIFIED" -> 2
      [] status = "COMPLETED" -> 3
      [] OTHER -> 4

\* C1: whatever the operation, the appointment's status never moves
\* backward in SCHEDULED < OTP_SENT < VERIFIED < COMPLETED, and the only
\* other change of status is a move to CANCELLED.
C1_StatusNeverMovesBackward ==
    [][appt'.status # appt.status =>
          \/ appt'.status = "CANCELLED"
          \/ appt.status # "CANCELLED" /\ Rank(appt'.status) > Rank(appt.status)]_vars

\* C2: once the appointment is COMPLETED or CANCELLED no operation changes
\* its status or any other of its fields.
C2_TerminalImmutable ==
    [][appt.status \in {"COMPLETED", "CANCELLED"} => appt' = appt]_vars

\* the request reaches the gateway: owner, not completed, recipient not blank
Deliverable(r) ==
    /\ Owned(r)
    /\ appt.status # "COMPLETED"
    /\ Trim(RecipientPhone(appt)) # <<>>

C3_Step(r, ready) ==
    LET delivered ==
            sendVisitOTP(RecipientPhone(appt), [i \in 1..6 |-> r.draw[i]], r.outs).ok
    IN
    /\ appt' # appt => ready /\ delivered
    /\ ready /\ delivered =>
          /\ appt' = [appt EXCEPT !.otp = [i \in 1..6 |-> r.draw[i]],
                                  !.otpExpiresAt = now + 15 * 60 * 1000,
                                  !.otpSentAt = now,
                                  !.otpAttempts = 0,
                                  !.status = "OTP_SENT"]
          /\ Len(appt'.otp) = 6 /\ \A i \in 1..6 : appt'.otp[i] \in 0..9
          /\ resp'.code = 200
    /\ ready /\ ~delivered =>
          /\ appt' = appt
          /\ resp'.code = 500
          /\ resp'.error \in {"Failed to send OTP", "Failed to resend OTP"}

\* C3: send and resend update the appointment exactly when the gateway
\* reports delivery success: then otp is the fresh 6-digit code,
\* otpExpiresAt is now + 15 minutes, otpSentAt is now, otpAttempts is 0 and
\* status is OTP_SENT; on delivery failure the appointment is unchanged and
\* the delivery-failure error is returned.
C3_SendUpdatesIffDelivered ==
    [][/\ Served("send") => C3_Step(resp'.req, Deliverable(resp'.req))
       /\ Served("resend") =>
             C3_Step(resp'.req,
                     /\ Deliverable(resp'.req)
                     /\ ~(appt.otpSentAt # NoTime /\ now - appt.otpSentAt < 60000))]_vars

\* a resend has delivered through the fallback, after the OTP endpoint
\* threw, to an appointment whose earlier code was being tried
C3_Witness ==
    /\ resp.op = "resend" /\ resp.code = 200
    /\ resp.req.outs.otp.type = "throw"
    /\ appt.status = "OTP_SENT" /\ appt.otpSentAt = now /\ appt.otpAttempts = 0
    /\ \E i \in 1..Len(smsLog) : smsLog[i].status = "failed"

\* an inline verify by the owner, with a code, of an appointment with an OTP
VerifyReady(r) ==
    /\ r.otp # NoText
    /\ Owned(r)
    /\ appt.otp # NoText /\ appt.otpExpiresAt # NoTime

NonMatching(otp) == otp # appt.otp /\ otp # <<0, 0, 0, 0, 0, 0>>

\* C4 as stated: an inline verify with a non-matching code at attempt
\* counter 2 fails with the attempts-exceeded error, the code not compared.
C4_ThirdWrongCodeExceeded ==
    [][/\ Served("verify")
       /\ VerifyReady(resp'.req)
       /\ now <= appt.otpExpiresAt
       /\ appt.otpAttempts = 2
       /\ NonMatching(resp'.req.otp)
       => resp'.error = "Maximum OTP attempts exceeded" /\ appt' = appt]_vars

\* C4 amended: the checks run in the order expiry, attempts, code match; the
\* attempts-exceeded error is returned, without comparing the code, from an
\* attempt counter of 3 on, and a non-matching code at counter 2 is compared
\* and fails with the mismatch error, 0 attempts remaining, counter 3.
C4_AttemptsCheckedFromThree ==
    [][Served("verify") /\ VerifyReady(resp'.req) =>
          /\ now > appt.otpExpiresAt => resp'.error = "OTP has expired"
          /\ now <= appt.otpExpiresAt /\ appt.otpAttempts >= 3 =>
                resp'.error = "Maximum OTP attempts exceeded" /\ appt' = appt
          /\ /\ now <= appt.otpExpiresAt
             /\ appt.otpAttempts = 2
             /\ NonMatching(resp'.req.otp)
             => /\ resp'.error = "Invalid OTP"
                /\ resp'.attemptsRemaining = 0
                /\ appt'.otpAttempts = 3]_vars

\* the third wrong code has been answered with the mismatch error
C4_Witness ==
    /\ resp.op = "verify" /\ resp.error = "Invalid OTP"
    /\ resp.attemptsRemaining = 0 /\ appt.otpAttempts = 3
    /\ resp.req.otp # appt.otp

\* C5: an inline verify is rejected, the appointment unchanged, whenever no
\* OTP was ever sent, the stored expiry has passed or otpAttempts has
\* reached 3, whatever the submitted code (the stored and the bypass code
\* included).
C5_VerifyRejectedUnchanged ==
    [][/\ Served("verify")
       /\ \/ appt.otp = NoText
          \/ appt.otpExpiresAt = NoTime
          \/ now > appt.otpExpiresAt
          \/ appt.otpAttempts >= 3
       => appt' = appt /\ resp'.code \in {400, 403, 404}]_vars

\* the owner's verify with the stored code has been refused after three
\* attempts
C5_Witness ==
    /\ resp.op = "verify" /\ resp.code = 400
    /\ resp.req.userId = appt.engineerId /\ resp.req.id = appt.id
    /\ resp.req.otp = appt.otp /\ appt.otp # <<0, 0, 0, 0, 0, 0>>
    /\ appt.otpAttempts = 3 /\ now <= appt.otpExpiresAt

\* C6: an inline verify that passes the guards, on a mismatch, adds one to
\* the attempt counter, keeps the status and reports attemptsRemaining =
\* 2 - previousAttempts, never negative; on a match (stored or bypass code)
\* it sets VERIFIED, stamps verifiedAt and still adds one to the counter.
C6_VerifyAccounting ==
    [][/\ Served("verify")
       /\ VerifyReady(resp'.req)
       /\ now <= appt.otpExpiresAt
       /\ appt.otpAttempts < 3
       => IF NonMatching(resp'.req.otp)
          THEN /\ appt' = [appt EXCEPT !.otpAttempts = appt.otpAttempts + 1]
               /\ resp'.error = "Invalid OTP"
               /\ resp'.attemptsRemaining = 2 - appt.otpAttempts
               /\ resp'.attemptsRemaining >= 0
          ELSE /\ appt' = [appt EXCEPT !.status = "VERIFIED", !.verifiedAt = now,
                                       !.otpAttempts = appt.otpAttempts + 1]
               /\ resp'.code = 200]_vars

\* the stored code has matched on the third attempt
C6_Witness ==
    /\ resp.op = "verify" /\ resp.code = 200
    /\ resp.req.otp = appt.otp /\ appt.otp # <<0, 0, 0, 0, 0, 0>>
    /\ appt.status = "VERIFIED" /\ appt.verifiedAt = now /\ appt.otpAttempts = 3

\* the rate-limit answer: retry-after in 1..60, no delivery
Limited ==
    /\ resp'.code = 429
    /\ resp'.retryAfter \in 1..60
    /\ resp'.calls = <<>>
    /\ smsLog' = smsLog

\* C7 as stated: a resend by the owner that arrives less than 60 seconds
\* after the previous resend for the same appointment or visit is rejected
\* with the rate-limit error, retry-after in 1..60, nothing delivered and
\* the entity unchanged.
C7_SecondResendRateLimited ==
    [][/\ /\ Served("resend")
          /\ Owned(resp'.req)
          /\ resendAt # NoTime /\ now - resendAt < 60000
          => Limited /\ appt' = appt
       /\ /\ Served("resend-visit")
          /\ OwnedVisit(resp'.req)
          /\ resendAt # NoTime /\ now - resendAt < 60000
          => Limited /\ visit' = visit]_vars

\* C7 amended: a resend by the owner of an appointment or visit that is not
\* completed, arriving less than 60 seconds after the entity's stored
\* otpSentAt (the last delivery that was persisted), is rejected with the
\* rate-limit error, retry-after in 1..60, nothing delivered and the entity
\* unchanged.
C7_ResendWithinCooldownLimited ==
    [][/\ /\ Served("resend")
          /\ Owned(resp'.req)
          /\ appt.status # "COMPLETED"
          /\ appt.otpSentAt # NoTime /\ now - appt.otpSentAt < 60000
          => Limited /\ appt' = appt
       /\ /\ Served("resend-visit")
          /\ OwnedVisit(resp'.req)
          /\ visit.status # "COMPLETED"
          /\ visit.otpSentAt # NoTime /\ now - visit.otpSentAt < 60000
          => Limited /\ visit' = visit]_vars

\* a resend refused in the last second of the cooldown
C7_Witness ==
    /\ resp.op = "resend" /\ resp.code = 429 /\ resp.retryAfter = 1
    /\ resendAt = now /\ appt.otpSentAt = 0 /\ appt.status = "OTP_SENT"

\* the token passes the local validation for the path's appointment
LocallyValid(t, id) ==
    t.sig = "jwt.secret" /\ now \div 1000 < t.exp /\ t.appointmentId = id

\* C8: widget-verify moves the appointment to VERIFIED, with verifiedAt,
\* only when the token passed the local validation and the provider
\* reported success; when the provider refuses or fails the appointment is
\* unchanged and the provider's message is returned.
C8_WidgetVerifyNeedsBoth ==
    [][Served("widget-verify") =>
          LET r == resp'.req IN
          /\ appt' # appt \/ resp'.code = 200 =>
                /\ LocallyValid(r.accessToken, r.id)
                /\ r.out.type = "success"
                /\ appt'.status = "VERIFIED" /\ appt'.verifiedAt = now
          /\ LocallyValid(r.accessToken, r.id) /\ r.out.type # "success" =>
                /\ appt' = appt
                /\ resp'.code \in {400, 500}
                /\ r.out.message # "" => resp'.details = r.out.message]_vars

\* a widget verification has gone through after the clock advanced
C8_Witness ==
    /\ resp.op = "widget-verify" /\ resp.code = 200 /\ resp.verifyCalls = 1
    /\ resp.req.accessToken \in tokens /\ now > 0
    /\ appt.status = "VERIFIED" /\ appt.verifiedAt = now

\* C9: widget-verify of an appointment or of a visit with a token whose id
\* is not the path's, or that fails the local validation, is rejected
\* before the provider's token-verification endpoint is called, the entity
\* unchanged.
C9_RejectedBeforeProvider ==
    [][/\ /\ Served("widget-verify")
          /\ \/ resp'.req.accessToken.appointmentId # resp'.req.id
             \/ resp'.req.accessToken.sig # "jwt.secret"
             \/ now \div 1000 >= resp'.req.accessToken.exp
          => resp'.verifyCalls = 0 /\ resp'.code = 400 /\ appt' = appt
       /\ /\ Served("visit-widget-verify")
          /\ \/ resp'.req.accessToken.visitId # resp'.req.id
             \/ resp'.req.accessToken.sig # "jwt.secret"
             \/ now \div 1000 >= resp'.req.accessToken.exp
          => resp'.verifyCalls = 0 /\ resp'.code = 400 /\ visit' = visit]_vars

\* the owner's submission with the visit's own token has been refused
\* after the token's expiry, the provider ready to confirm
C9_Witness ==
    /\ resp.op = "visit-widget-verify"
    /\ resp.error = "Invalid or expired access token" /\ resp.verifyCalls = 0
    /\ resp.req.accessToken \in tokens /\ resp.req.id = visit.id
    /\ resp.req.workerCount > 0 /\ resp.req.out.type = "success"
    /\ now \div 1000 >= resp.req.accessToken.exp

\* C10: a widget-verify presenting a token that an earlier widget-verify
\* has used makes no verification transition.
C10_TokenConsumedOnce ==
    [][Served("widget-verify") /\ resp'.req.accessToken \in consumed => appt' = appt]_vars

\* the characters of a text that are not spaces (the texts explored carry
\* spaces at their ends only)
Unspaced(s) == SelectSeq(s, LAMBDA c : c # Space)

\* C11: feedback succeeds only when the appointment is VERIFIED and the
\* feedback has at least 10 characters after trimming; it then stores the
\* trimmed feedback and sets COMPLETED; in every other case the appointment
\* is unchanged.  No step reaches COMPLETED from a status other than
\* VERIFIED.
C11_FeedbackCompletesVerified ==
    [][/\ Served("feedback") =>
             LET r == resp'.req
                 ok == /\ Owned(r)
                       /\ appt.status = "VERIFIED"
                       /\ Len(Unspaced(r.feedback)) >= 10
             IN
             /\ resp'.code = 200 <=> ok
             /\ ok => appt' = [appt EXCEPT !.feedback = Unspaced(r.feedback),
                                           !.status = "COMPLETED"]
             /\ ~ok => appt' = appt
       /\ appt'.status = "COMPLETED" /\ appt.status # "COMPLETED" =>
             appt.status = "VERIFIED" /\ resp'.op = "feedback"]_vars

\* a verified appointment has been completed with feedback that came
\* between spaces
C11_Witness ==
    /\ resp.op = "feedback" /\ resp.code = 200
    /\ resp.req.feedback[1] = Space
    /\ appt.status = "COMPLETED" /\ appt.verifiedAt # NoTime
    /\ appt.feedback = [i \in 1..10 |-> Letter]

\* the engineer routes of the two entities
ApptOps == {"send", "resend", "verify", "widget-token", "widget-verify", "feedback"}
VisitOps == {"resend-visit", "submit-count", "visit-widget-token", "visit-widget-verify"}

\* the step serves a request of one of the routes to the existing row, sent
\* by an engineer who is not the row's engineer
StrangerToAppt ==
    /\ resp = NoResponse /\ resp'.op \in ApptOps
    /\ cfg.apptExists /\ resp'.req.id = appt.id /\ resp'.req.userId # appt.engineerId
StrangerToVisit ==
    /\ resp = NoResponse /\ resp'.op \in VisitOps
    /\ visit.exists /\ resp'.req.id = visit.id /\ resp'.req.userId # visit.engineerId

\* what a handler checks before it compares the caller with the row's
\* engineer: the body, and for a widget verification the token and the
\* provider's confirmation
PassesEarlierChecks(op, r) ==
    CASE op = "verify" -> r.otp # <<>>
      [] op = "feedback" -> Len(Unspaced(r.feedback)) >= 10
      [] op = "widget-verify" ->
            /\ r.accessToken.sig = "jwt.secret" /\ now \div 1000 < r.accessToken.exp
            /\ r.accessToken.appointmentId = r.id
            /\ r.out.type = "success"
      [] op = "submit-count" -> r.otp # <<>> /\ r.workerCount > 0
      [] op = "visit-widget-verify" ->
            /\ r.workerCount > 0
            /\ r.accessToken.sig = "jwt.secret" /\ now \div 1000 < r.accessToken.exp
            /\ r.accessToken.visitId = r.id
            /\ r.out.type = "success"
      [] OTHER -> TRUE

\* C12 as stated: every engineer route of an appointment or a worker visit,
\* called by an engineer who is not the entity's engineer, answers with the
\* authorization error and leaves the entity unchanged.
C12_StrangerGetsAccessDenied ==
    [][/\ StrangerToAppt => resp'.code = 403 /\ appt' = appt
       /\ StrangerToVisit => resp'.code = 403 /\ visit' = visit]_vars

\* C12 amended: such a call never succeeds, leaves the entity unchanged,
\* issues no token and delivers nothing; its error is the authorization
\* error whenever the request passes the checks the handler makes before
\* the ownership check, and the error of the first of those checks
\* otherwise.
C12_StrangerRejected ==
    [][/\ StrangerToAppt =>
             /\ appt' = appt /\ tokens' = tokens /\ smsLog' = smsLog
             /\ resp'.code \in {400, 403, 500}
             /\ PassesEarlierChecks(resp'.op, resp'.req) <=>
                   (resp'.code = 403 /\ resp'.error = "Access denied")
       /\ StrangerToVisit =>
             /\ visit' = visit /\ tokens' = tokens /\ smsLog' = smsLog
             /\ resp'.code \in {400, 403, 500}
             /\ PassesEarlierChecks(resp'.op, resp'.req) <=>
                   (resp'.code = 403 /\ resp'.error = "Access denied")]_vars

\* another engineer's feedback for a verified appointment has been refused
C12_Witness ==
    /\ resp.op = "feedback" /\ resp.code = 403
    /\ resp.req.id = appt.id /\ resp.req.userId # appt.engineerId
    /\ Len(resp.req.feedback) > 10
    /\ appt.status = "VERIFIED" /\ appt.feedback = <<>>

\* the outcome of the delivery to the client's primary contact that the
\* request of the step makes
ClientDelivered(r) ==
    sendWorkerCountOTPToClient(cfg.primaryContact, [i \in 1..6 |-> r.draw[i]], r.outs).ok

\* C13: creating a worker visit leaves a visit carrying otp, otpExpiresAt
\* and otpSentAt only if the delivery to the client's primary contact
\* succeeded.
C13_CreatePersistsOnlyIfDelivered ==
    [][Served("create-visit") /\ visit'.exists /\ visit'.otpSentAt # NoTime
          => ClientDelivered(resp'.req)]_vars

\* the rows the step added to the delivery log
NewRows == SubSeq(smsLog', Len(smsLog) + 1, Len(smsLog'))

\* the resend reaches the gateway: owner, not completed, outside the cooldown
VisitResendReady(r) ==
    /\ OwnedVisit(r)
    /\ visit.status # "COMPLETED"
    /\ ~(visit.otpSentAt # NoTime /\ now - visit.otpSentAt < 60000)

\* C14: a worker-visit resend draws a new code and attempts the delivery to
\* the client and, when one is configured, to the admin phone; it updates
\* the visit (otp, otpExpiresAt = now + 24 h, otpSentAt = now; the update
\* also writes status PENDING) exactly when the client-side delivery
\* succeeded, whatever the admin-side outcome; on a client-side failure the
\* visit is unchanged; a COMPLETED visit is refused.
C14_VisitResendIffClientDelivered ==
    [][Served("resend-visit") =>
          LET r == resp'.req
              ready == VisitResendReady(r)
          IN
          /\ visit' # visit => ready /\ ClientDelivered(r)
          /\ ready =>
                /\ \E i \in 1..Len(NewRows) : NewRows[i].message # "worker-admin-text"
                /\ cfg.adminPhone # <<>> =>
                      \E i \in 1..Len(NewRows) : NewRows[i].message = "worker-admin-text"
          /\ ready /\ ClientDelivered(r) =>
                /\ visit' = [visit EXCEPT !.otp = [i \in 1..6 |-> r.draw[i]],
                                          !.otpExpiresAt = now + 24 * 60 * 60 * 1000,
                                          !.otpSentAt = now,
                                          !.status = "PENDING"]
                /\ resp'.code = 200
          /\ ready /\ ~ClientDelivered(r) => visit' = visit /\ resp'.code = 500
          /\ OwnedVisit(r) /\ visit.status = "COMPLETED" =>
                visit' = visit /\ resp'.code = 400]_vars

\* a resend has updated the visit although the admin was not reached
C14_Witness ==
    /\ resp.op = "resend-visit" /\ resp.code = 200
    /\ cfg.adminPhone # <<>> /\ resp.req.outs.admin.type # "success"
    /\ visit.otpSentAt = now /\ now >= 60000
    /\ visit.otp = [i \in 1..6 |-> resp.req.draw[i]]
    /\ \E i \in 1..Len(smsLog) :
          smsLog[i].message = "worker-admin-text" /\ smsLog[i].status = "failed"

\* C15: a worker visit carries a workerCount only if its status is
\* OTP_VERIFIED or COMPLETED.
C15_CountOnlyWhenVerified ==
    visit.exists /\ visit.workerCount # NoCount =>
       visit.status \in {"OTP_VERIFIED", "COMPLETED"}

\* C16: no step moves a worker visit from OTP_VERIFIED or COMPLETED back to
\* PENDING.
C16_VisitNeverBackToPending ==
    [][visit.exists /\ visit.status \in {"OTP_VERIFIED", "COMPLETED"}
          => visit'.status # "PENDING"]_vars

\* C17: an inline worker-visit verify by the owner with the code 000000 and
\* a positive workerCount, on a visit that is not completed and whose OTP
\* has not expired, succeeds, sets OTP_VERIFIED and stores the worker count
\* whatever OTP the visit holds; the appointment's inline verify accepts
\* the same code once its own guards (OTP sent, not expired, fewer than 3
\* attempts) have passed.
C17_BypassCodeAccepted ==
    [][/\ /\ Served("submit-count")
          /\ OwnedVisit(resp'.req)
          /\ visit.status # "COMPLETED"
          /\ visit.otpExpiresAt # NoTime /\ now <= visit.otpExpiresAt
          /\ resp'.req.otp = <<0, 0, 0, 0, 0, 0>>
          /\ resp'.req.workerCount > 0
          => /\ resp'.code = 200
             /\ visit'.status = "OTP_VERIFIED"
             /\ visit'.workerCount = resp'.req.workerCount
             /\ visit'.verifiedAt = now
       /\ /\ Served("verify")
          /\ VerifyReady(resp'.req)
          /\ now <= appt.otpExpiresAt /\ appt.otpAttempts < 3
          /\ resp'.req.otp = <<0, 0, 0, 0, 0, 0>>
          => resp'.code = 200 /\ appt'.status = "VERIFIED"]_vars

\* twelve workers have been recorded with the bypass code on a visit that
\* holds another code
C17_Witness ==
    /\ resp.op = "submit-count" /\ resp.code = 200
    /\ resp.req.otp = <<0, 0, 0, 0, 0, 0>> /\ resp.req.workerCount = 12
    /\ visit.otp # <<0, 0, 0, 0, 0, 0>> /\ visit.otp # <<>>
    /\ visit.status = "OTP_VERIFIED" /\ visit.workerCount = 12

\* an inline worker-visit verify by the owner that reaches the comparison
\* of the code
VisitVerifyReady(r) ==
    /\ r.otp # <<>> /\ r.workerCount > 0
    /\ OwnedVisit(r)
    /\ visit.status # "COMPLETED"
    /\ visit.otpExpiresAt # NoTime /\ now <= visit.otpExpiresAt

\* C18: the inline worker-visit verify has no attempt limit: a wrong code
\* on an unexpired visit fails with the mismatch error and leaves the visit
\* unchanged, and the stored code succeeds before the expiry however many
\* wrong codes came before.
C18_NoAttemptLimitOnVisits ==
    [][Served("submit-count") /\ VisitVerifyReady(resp'.req) =>
          IF resp'.req.otp # visit.otp /\ resp'.req.otp # <<0, 0, 0, 0, 0, 0>>
          THEN resp'.code = 400 /\ resp'.error = "Invalid OTP" /\ visit' = visit
          ELSE resp'.code = 200 /\ visit'.status = "OTP_VERIFIED"]_vars

\* the stored code has been accepted after two wrong codes
C18_Witness ==
    /\ wrongCodes >= 2
    /\ resp.op = "submit-count" /\ resp.code = 200
    /\ resp.req.otp = visit.otp /\ visit.otp # <<0, 0, 0, 0, 0, 0>>
    /\ visit.status = "OTP_VERIFIED" /\ visit.verifiedAt = now

\* the visit row after a verification that recorded the request's count
Verified(r) ==
    [visit EXCEPT !.workerCount = r.workerCount, !.remarks = <<Letter>>,
                  !.status = "OTP_VERIFIED", !.verifiedAt = now]

\* a verification of either kind writes the same fields, and both kinds
\* refuse a caller who is not the visit's engineer, a missing or
\* non-positive worker count and a visit that does not exist or is
\* COMPLETED
SameEffect ==
    /\ resp = NoResponse /\ resp'.op \in {"submit-count", "visit-widget-verify"} =>
          /\ resp'.code = 200 => visit' = Verified(resp'.req)
          /\ resp'.code # 200 => visit' = visit
          /\ \/ ~OwnedVisit(resp'.req)
             \/ resp'.req.workerCount <= 0
             \/ visit.status = "COMPLETED"
             => resp'.code # 200

\* the stored OTP of the visit has expired, the state in which the inline
\* verify refuses every code
OtpExpired == visit.otpExpiresAt = NoTime \/ now > visit.otpExpiresAt

\* C19 as stated: a provider-confirmed widget-verify and a successful
\* inline verify write the same visit fields, and each is rejected in the
\* visit states in which the other is.
C19_WidgetAndInlineEquivalent ==
    [][/\ SameEffect
       /\ resp = NoResponse /\ resp'.op \in {"submit-count", "visit-widget-verify"}
          /\ OtpExpired
          => resp'.code # 200]_vars

\* C19 amended: the two verifications write the same visit fields and share
\* the refusals of a caller who does not own the visit, of a non-positive
\* worker count and of a COMPLETED visit; the expiry of the visit's stored
\* OTP refuses the inline verify only.
C19_WidgetAndInlineSameEffect ==
    [][/\ SameEffect
       /\ Served("submit-count") /\ OtpExpired => resp'.code # 200
       /\ /\ Served("visit-widget-verify")
          /\ OwnedVisit(resp'.req) /\ visit.status # "COMPLETED"
          /\ resp'.req.workerCount > 0
          /\ resp'.req.accessToken.sig = "jwt.secret"
          /\ now \div 1000 < resp'.req.accessToken.exp
          /\ resp'.req.accessToken.visitId = resp'.req.id
          /\ resp'.req.out.type = "success"
          => resp'.code = 200]_vars

\* a widget verification has recorded twelve workers on a visit whose
\* stored OTP had expired
C19_Witness ==
    /\ resp.op = "visit-widget-verify" /\ resp.code = 200
    /\ visit.otpExpiresAt # NoTime /\ now > visit.otpExpiresAt
    /\ visit.status = "OTP_VERIFIED" /\ visit.workerCount = 12
    /\ visit.verifiedAt = now /\ visit.remarks # <<>>

\* C20: creating a worker visit for an active client, an engineer creates
\* it for their own id whatever engineerId the body carries, and an admin
\* who names an active engineer creates it for that engineer.
C20_CreateTargetsEngineer ==
    [][/\ Served("create-visit")
       /\ resp'.req.body.clientId = "c1" /\ resp'.req.body.visitDate # ""
       /\ cfg.clientActive
       => /\ resp'.req.userId \in Engineers =>
                /\ resp'.code = 201
                /\ visit'.exists /\ visit'.engineerId = resp'.req.userId
          /\ resp'.req.userId \in Admins /\ resp'.req.body.engineerId \in Engineers =>
                /\ resp'.code = 201
                /\ visit'.exists /\ visit'.engineerId = resp'.req.body.engineerId]_vars

----
(* Gateway properties.  A gateway call is a step of SpecGateway; its       *)
(* recipient and outcomes are in resp'.req, what it did in resp'.          *)

\* the log writes of the call succeed
LogWorks(out) == out.log = "ok"
AllLogsWork(outs) ==
    LogWorks(outs.otp) /\ LogWorks(outs.sms1) /\ LogWorks(outs.retry) /\ LogWorks(outs.sms2)

\* C21: every call of sendSMS appends exactly one SMSLog row, whether the
\* recipient is invalid, the provider accepts, the provider reports a failure
\* or the request throws; the row carries the normalized phone when there is
\* one and the recipient as given otherwise
C21_SendLogsOneRow ==
    [][(Served("sendSMS") /\ LogWorks(resp'.req.out))
        => /\ Len(smsLog') = Len(smsLog) + 1
           /\ smsLog'[Len(smsLog')].phone =
                IF normalizePhoneNumber(resp'.req.to) # NoText
                THEN normalizePhoneNumber(resp'.req.to)
                ELSE resp'.req.to
           /\ smsLog'[Len(smsLog')].status =
                IF normalizePhoneNumber(resp'.req.to) # NoText
                   /\ resp'.req.out.type = "success"
                THEN "sent" ELSE "failed"]_vars

\* a request that threw is logged under the normalized recipient
C21_Witness ==
    /\ resp.op = "sendSMS"
    /\ resp.req.to = PrettyPhone
    /\ resp.req.out = Thrown
    /\ Len(smsLog) = 1
    /\ smsLog[1].phone = <<9, 1, 9, 8, 7, 6, 5, 4, 3, 2, 1, 1>>
    /\ smsLog[1].status = "failed"

GatewayOps ==
    {"sendSMS", "sendOTPViaMSG91", "sendVisitOTP", "sendWorkerCountOTPToClient",
     "sendWorkerCountOTPToAdmin"}

\* C22: no gateway call raises to its caller, whatever the provider answers
\* and whether or not the log write succeeds
C22_GatewayNeverRaises ==
    [][\A op \in GatewayOps : Served(op) => ~resp'.raised]_vars

\* the request threw and the log write of the catch block was rejected:
\* sendSMS raised
C22_Raised ==
    /\ resp.op = "sendSMS"
    /\ resp.req.to = ValidPhone
    /\ resp.req.out = Logged(Thrown, "down")
    /\ resp.raised

\* the human-readable texts that carry the code
CodeTexts == {"otp-text", "visit-text", "worker-client-text"}

\* a send() delivery of the code was attempted
TextAttempted(r) ==
    /\ \E i \in 1..Len(r.calls) : r.calls[i] \in {"flow-template", "flow-plain"}
    /\ \E i \in 1..Len(r.rows) : r.rows[i].message \in CodeTexts

\* the OTP endpoint is not configured, or its call did not report success
OtpTierFailed(outs) == ~cfg.otpTemplateId \/ outs.otp.type # "success"

\* a delivery to a normalizable recipient with working log writes
Delivering(op) ==
    /\ Served(op)
    /\ normalizePhoneNumber(resp'.req.to) # NoText
    /\ AllLogsWork(resp'.req.outs)

\* C23 as stated: when the OTP endpoint is not configured or its call fails,
\* sendOTPViaMSG91 attempts send() with a readable text before it resolves,
\* and it resolves to true exactly when an attempted tier reported success
C23_SendOTPFallsBack ==
    [][(Delivering("sendOTPViaMSG91") /\ OtpTierFailed(resp'.req.outs))
        => /\ TextAttempted(resp')
           /\ resp'.ok = (resp'.req.outs.sms1.type = "success")]_vars

\* C23 amended: sendOTPViaMSG91 falls back to send() when no OTP template is
\* configured or the OTP request throws, and resolves to false without a
\* fallback when the provider reports a failure; the wrappers sendVisitOTP
\* and sendWorkerCountOTPToClient then make their own send() attempt, so a
\* delivery through a wrapper attempts send() whenever the OTP tier did not
\* succeed and resolves to true exactly when an attempted tier succeeded
C23_DeliveryFallsBack ==
    [][/\ Delivering("sendOTPViaMSG91")
          => LET outs == resp'.req.outs IN
             IF cfg.otpTemplateId /\ outs.otp.type = "success"
             THEN resp'.ok /\ resp'.calls = <<"otp">>
             ELSE IF cfg.otpTemplateId /\ outs.otp.type = "error"
             THEN ~resp'.ok /\ resp'.calls = <<"otp">>
             ELSE TextAttempted(resp') /\ resp'.ok = (outs.sms1.type = "success")
       /\ \A op \in {"sendVisitOTP", "sendWorkerCountOTPToClient"} :
            Delivering(op)
            => LET outs == resp'.req.outs IN
               IF cfg.otpTemplateId /\ outs.otp.type = "success"
               THEN resp'.ok /\ resp'.calls = <<"otp">>
               ELSE /\ TextAttempted(resp')
                    /\ resp'.ok =
                         IF cfg.otpTemplateId /\ outs.otp.type = "error"
                         THEN outs.sms2.type = "success"
                         ELSE outs.sms1.type = "success" \/ outs.sms2.type = "success"]_vars

\* the OTP endpoint reported a failure, sendOTPViaMSG91 made no other call,
\* and the wrapper delivered the code through send()
C23_Witness ==
    /\ resp.op = "sendWorkerCountOTPToClient"
    /\ cfg.otpTemplateId
    /\ resp.req.to = ValidPhone
    /\ resp.req.outs.otp = Failure
    /\ resp.req.outs.sms2 = Success
    /\ resp.calls = <<"otp", FlowEndpoint>>
    /\ resp.ok

\* the number of calls a delivery made to one of the endpoints
CallsTo(calls, endpoints) == Cardinality({ i \in 1..Len(calls) : calls[i] \in endpoints })

\* C24: one OTP delivery for an appointment or a worker visit calls the OTP
\* endpoint at most once and the generic message endpoint at most once,
\* whatever the provider answers
C24_AtMostOneCallPerTier ==
    [][\A op \in {"sendVisitOTP", "sendWorkerCountOTPToClient"} :
         (Served(op) /\ AllLogsWork(resp'.req.outs))
         => /\ CallsTo(resp'.calls, {"otp"}) <= 1
            /\ CallsTo(resp'.calls, {"flow-template", "flow-plain"}) <= 1]_vars

\* the OTP request threw, the send() of sendOTPViaMSG91 was refused by the
\* provider and the appointment delivery called the message endpoint again
C24_SecondSend ==
    /\ resp.op = "sendVisitOTP"
    /\ resp.req.to = ValidPhone
    /\ resp.req.outs.otp = Thrown
    /\ resp.req.outs.sms1 = Failure
    /\ resp.req.outs.sms2 = Success
    /\ resp.calls = <<"otp", FlowEndpoint, FlowEndpoint>>
    /\ resp.ok

\* the recipients explored that have no normalized form: blank, five digits
\* after 91, empty, eight digits after 91
InvalidPhones == {BlankPhone, MalformedPhone, NoText, TenDigits91}

\* the outcomes of the request, whichever way the call draws them
RequestOutcomes(req) ==
    IF "outs" \in DOMAIN req THEN req.outs
    ELSE Outcomes(req.out, req.out, req.out, req.out)

\* C25: for a recipient that fails normalization, sendSMS, sendOTPViaMSG91
\* and sendVisitOTP call no provider endpoint, write one failed row with the
\* reason `Invalid phone number format' under the recipient as given, and
\* return false
C25_InvalidPhoneRefused ==
    [][\A op \in {"sendSMS", "sendOTPViaMSG91", "sendVisitOTP"} :
         (/\ Served(op)
          /\ resp'.req.to \in InvalidPhones
          /\ AllLogsWork(RequestOutcomes(resp'.req)))
         => /\ resp'.calls = <<>>
            /\ ~resp'.ok
            /\ ~resp'.raised
            /\ Len(smsLog') = Len(smsLog) + 1
            /\ smsLog'[Len(smsLog')].phone = resp'.req.to
            /\ smsLog'[Len(smsLog')].status = "failed"
            /\ smsLog'[Len(smsLog')].error = "Invalid phone number format"]_vars

\* sendVisitOTP refused a five-digit recipient while the provider was up
C25_Witness ==
    /\ resp.op = "sendVisitOTP"
    /\ resp.req.to = MalformedPhone
    /\ resp.req.outs.otp = Success
    /\ AllLogsWork(resp.req.outs)
    /\ resp.calls = <<>>
    /\ ~resp.ok
    /\ Len(smsLog) = 1
    /\ smsLog[1].error = "Invalid phone number format"

----
(* Appointment delivery properties *)

\* a send or resend by the owner that reaches the recipient check
ReachesRecipient(op) ==
    /\ Served(op)
    /\ resp'.req.id = appt.id
    /\ resp'.req.userId = appt.engineerId
    /\ appt.status # "COMPLETED"
    /\ op = "resend" => ~InCooldown(appt.otpSentAt)

\* C26: a send or resend whose recipient is blank answers 400 without
\* calling the gateway, writing a row or changing the appointment; a
\* recipient that is not blank but malformed leaves one failed row and
\* answers with the delivery failure; the alternate OTP phone, when there is
\* one, is the recipient
C26_BlankBeforeGateway ==
    [][\A op \in {"send", "resend"} :
         ReachesRecipient(op)
         => /\ (appt.otpMobileNumber = NoText /\ cfg.primaryContact = BlankPhone)
               => /\ resp'.code = 400
                  /\ resp'.error = "Client phone number is missing"
                  /\ resp'.calls = <<>>
                  /\ smsLog' = smsLog
                  /\ appt' = appt
            /\ (appt.otpMobileNumber = NoText /\ cfg.primaryContact = MalformedPhone)
               => /\ resp'.code = 500
                  /\ resp'.calls = <<>>
                  /\ smsLog' = smsLog \o <<[phone |-> MalformedPhone, message |-> "otp-marker",
                                            status |-> "failed",
                                            error |-> "Invalid phone number format"]>>
                  /\ appt' = appt
            /\ appt.otpMobileNumber = PrettyPhone
               => /\ resp'.code \in {200, 500}
                  /\ resp'.calls # <<>>
                  /\ smsLog' # smsLog
                  /\ smsLog'[Len(smsLog')].phone = <<9, 1, 9, 8, 7, 6, 5, 4, 3, 2, 1, 1>>]_vars

\* a resend to a blank recipient refused with 400
C26_Witness ==
    /\ resp.op = "resend"
    /\ resp.code = 400
    /\ resp.error = "Client phone number is missing"
    /\ resp.req.outs = Outcomes(Success, Success, Success, Success)
    /\ cfg.primaryContact = BlankPhone
    /\ appt.otpMobileNumber = NoText
    /\ smsLog = <<>>

\* a send to a malformed recipient answered with the delivery failure
C26_MalformedWitness ==
    /\ resp.op = "send"
    /\ resp.code = 500
    /\ cfg.primaryContact = MalformedPhone
    /\ Len(smsLog) = 1
    /\ smsLog[1].error = "Invalid phone number format"

\* the error strings that come from the provider: the message of a reported
\* failure and the message of a request that threw
ProviderErrors == {Failure.message, Thrown.message}

\* the rows of the log that hold a provider error for the recipient
ProviderErrorRows(log, recipientPhone) ==
    { i \in 1..Len(log) :
        /\ log[i].status = "failed"
        /\ log[i].error \in ProviderErrors
        /\ Contains(log[i].phone, Last10(DigitsOf(recipientPhone))) }

\* C27: a resend that fails to deliver, with a provider error logged for the
\* recipient, answers with the last provider error logged for that recipient
C27_ResendCarriesProviderError ==
    [][(Served("resend") /\ resp'.code = 500)
        => LET hits == ProviderErrorRows(smsLog', RecipientPhone(appt))
               last == CHOOSE i \in hits : \A j \in hits : j <= i
           IN hits # {} => resp'.details = smsLog'[last].error]_vars

\* the provider refused the OTP request with a message, the resend failed and
\* its response carries the gateway's own summary
C27_SummaryReturned ==
    /\ resp.op = "resend"
    /\ resp.code = 500
    /\ resp.details = "Both OTP API and regular SMS failed"
    /\ \E i \in 1..Len(smsLog) : smsLog[i].error = "template not approved"

----
(* Concurrent resends (SpecRace) *)

PassesGuard(p) == inflight[p].pc = "waiting" /\ inflight'[p].pc = "gateway"
Writes(p) == inflight[p].pc = "update" /\ inflight'[p].pc = "answered"

\* C28: the cooldown guard of a resend looks only at the timestamp the
\* request read: a request goes on to the gateway exactly on a row whose
\* last send is none or at least 60 seconds old, and once its delivery
\* succeeded its update is written whatever another request has written to
\* the row in between
C28_ResendsNotSerialized ==
    [][\A p \in Requests :
         /\ PassesGuard(p)
            => LET row == inflight'[p].row IN
               /\ row = IF inflight'[p].op = "resend" THEN appt ELSE visit
               /\ row.otpSentAt = NoTime \/ now - row.otpSentAt >= 60000
         /\ Writes(p)
            => /\ inflight'[p].code = 200
               /\ inflight[p].op = "resend"
                  => /\ appt'.otp = inflight[p].otp
                     /\ appt'.otpSentAt = now
                     /\ appt'.otpExpiresAt = inflight[p].expiry
                     /\ appt'.status = "OTP_SENT"
               /\ inflight[p].op = "resend-visit"
                  => /\ visit'.otp = inflight[p].otp
                     /\ visit'.otpSentAt = now
                     /\ visit'.otpExpiresAt = inflight[p].expiry]_vars

\* the rows of successful deliveries in the log
SentRows == { i \in 1..Len(smsLog) : smsLog[i].status = "sent" }

\* an OTP was sent at 0; 60 seconds later both resend requests read that
\* timestamp, both passed the guard, both delivered a code and both wrote
\* the row
C28_Witness ==
    /\ \A p \in Requests :
         /\ inflight[p].pc = "answered"
         /\ inflight[p].op = "resend"
         /\ inflight[p].code = 200
         /\ inflight[p].row.otpSentAt = 0
    /\ inflight["r1"].otp # inflight["r2"].otp
    /\ now = CooldownPeriod
    /\ appt.otpSentAt = now
    /\ Cardinality(SentRows) = 3

\* the same for a worker visit created at 0
C28_VisitWitness ==
    /\ \A p \in Requests :
         /\ inflight[p].pc = "answered"
         /\ inflight[p].op = "resend-visit"
         /\ inflight[p].code = 200
         /\ inflight[p].row.otpSentAt = 0
    /\ inflight["r1"].otp # inflight["r2"].otp
    /\ now = CooldownPeriod
    /\ visit.otpSentAt = now

----
(* Expiry boundary *)

\* C29: the expiry check is strict.  The owner's verify with the stored code
\* at exactly the stored expiry instant, attempts left, is accepted; at any
\* later instant it is refused as expired.  The same for the worker count
\* submitted with the stored code.
C29_ExpiryIsStrict ==
    [][/\ (/\ Served("verify")
           /\ Owned(resp'.req)
           /\ appt.otp # NoText /\ appt.otpExpiresAt # NoTime
           /\ resp'.req.otp = appt.otp)
          => /\ (now = appt.otpExpiresAt /\ appt.otpAttempts < 3)
                => resp'.code = 200 /\ appt'.status = "VERIFIED"
             /\ now > appt.otpExpiresAt
                => resp'.code = 400 /\ resp'.error = "OTP has expired" /\ appt' = appt
       /\ (/\ Served("submit-count")
           /\ OwnedVisit(resp'.req)
           /\ resp'.req.workerCount > 0
           /\ visit.otpExpiresAt # NoTime
           /\ resp'.req.otp = visit.otp)
          => /\ now = visit.otpExpiresAt
                => resp'.code = 200 /\ visit'.status = "OTP_VERIFIED"
             /\ now > visit.otpExpiresAt
                => /\ resp'.code = 400
                   /\ resp'.error = "OTP has expired. Please create a new visit."
                   /\ visit' = visit]_vars

\* an OTP sent at 0 was verified 15 minutes later to the millisecond
C29_Witness ==
    /\ resp.op = "verify" /\ resp.code = 200
    /\ resp.req.otp = appt.otp
    /\ appt.otp = <<1, 2, 3, 4, 5, 6>>
    /\ appt.otpSentAt = 0
    /\ appt.otpExpiresAt = 15 * 60 * 1000
    /\ now = 15 * 60 * 1000
    /\ appt.verifiedAt = now

\* an OTP sent at 0 was refused one millisecond after its expiry
C29_LateWitness ==
    /\ resp.op = "verify" /\ resp.code = 400 /\ resp.error = "OTP has expired"
    /\ resp.req.otp = appt.otp
    /\ appt.otp = <<1, 2, 3, 4, 5, 6>>
    /\ now = appt.otpExpiresAt + 1

----
(* Phone Normalizer properties *)

\* the input has exactly ten digits once everything else is stripped
TenDigitInput(phone) == Len(DigitsOf(phone)) = 10

\* C30 as stated: every input of exactly ten digits is returned as 91
\* followed by those digits
C30_TenDigitsGetPrefix ==
    [][(Served("normalizePhoneNumber") /\ TenDigitInput(resp'.req.to))
        => resp'.result = <<9, 1>> \o DigitsOf(resp'.req.to)]_vars

\* what the function does with ten digits: those that do not begin with 91
\* are returned as 91 followed by them, twelve digits in all; those that
\* begin with 91 fail
TenDigitsWithoutPrefix ==
    [][(Served("normalizePhoneNumber") /\ TenDigitInput(resp'.req.to))
        => LET digits == DigitsOf(resp'.req.to) IN
           IF digits[1] = 9 /\ digits[2] = 1
           THEN resp'.result = NoText
           ELSE resp'.result = <<9, 1>> \o digits /\ Len(resp'.result) = 12]_vars

\* `98765-43210' was normalized to 919876543210
TenDigitsPrefixed ==
    /\ resp.op = "normalizePhoneNumber"
    /\ resp.req.to = <<9, 8, 7, 6, 5, 12, 4, 3, 2, 1, 0>>
    /\ resp.result = <<9, 1, 9, 8, 7, 6, 5, 4, 3, 2, 1, 0>>

\* `9123456789' was refused
C30_PrefixedTenDigitsRefused ==
    /\ resp.op = "normalizePhoneNumber"
    /\ resp.req.to = TenDigits91
    /\ resp.result = NoText

\* twelve digits, the first two 9 and 1
Canonical(s) ==
    /\ Len(s) = 12
    /\ \A i \in 1..Len(s) : s[i] \in 0..9
    /\ s[1] = 9 /\ s[2] = 1

C32_IdempotentOnCanonical ==
    [][Served("normalizePhoneNumber") /\ Canonical(resp'.req.to)
        => resp'.result = resp'.req.to /\ resp'.again = resp'.result]_vars

\* `919876543210' was normalized, once and twice, to itself
C32_Witness ==
    /\ resp.op = "normalizePhoneNumber"
    /\ resp.req.to = <<9, 1, 9, 8, 7, 6, 5, 4, 3, 2, 1, 0>>
    /\ resp.result = resp.req.to
    /\ resp.again = resp.req.to

\* whatever the function returns, normalizing it again changes nothing
IdempotentEverywhere ==
    [][Served("normalizePhoneNumber") => resp'.again = resp'.result]_vars

----
(* Properties: issuing, ordering and binding *)

\* C33: a send or resend that succeeds for an appointment whose code was
\* issued before comes at least 60 seconds after that issuance
C33_IssuancesSpacedByCooldown ==
    [][(Served("send") \/ Served("resend")) /\ resp'.code = 200 /\ appt.otpSentAt # NoTime
        => now - appt.otpSentAt >= CooldownPeriod]_vars

\* the same for resend alone
ResendsSpacedByCooldown ==
    [][Served("resend") /\ resp'.code = 200 /\ appt.otpSentAt # NoTime
        => now - appt.otpSentAt >= CooldownPeriod]_vars

\* the request names a row that does not exist
ToUnknownRow ==
    /\ resp = NoResponse
    /\ \/ resp'.op \in ApptOps /\ ~(cfg.apptExists /\ resp'.req.id = appt.id)
       \/ resp'.op \in VisitOps /\ ~(visit.exists /\ resp'.req.id = visit.id)

\* C34: a request of an engineer who does not own the row, or for a row that
\* does not exist, is answered without any call to the SMS gateway or to
\* the provider's token verification
C34_OwnershipBeforeProvider ==
    [][StrangerToAppt \/ StrangerToVisit \/ ToUnknownRow
        => resp'.verifyCalls = 0 /\ resp'.calls = <<>>]_vars

\* the same for the operations that issue a code
C34_IssuingChecksOwnerFirst ==
    [][(StrangerToAppt \/ StrangerToVisit \/ ToUnknownRow)
        /\ resp'.op \in {"send", "resend", "resend-visit"}
        => resp'.verifyCalls = 0 /\ resp'.calls = <<>>]_vars

\* an engineer who does not own the appointment presented its token: the
\* provider was asked to verify it and then the request was refused
C34_VerifiedForStranger ==
    /\ resp.op = "widget-verify"
    /\ resp.code = 403
    /\ resp.verifyCalls = 1
    /\ resp.req.userId # appt.engineerId

C37_CompletedWitness ==
    /\ appt.status = "COMPLETED"
    /\ appt.feedback # NoText
    /\ appt.verifiedAt # NoTime

\* C38: once a verification has stored the worker count of a visit
\* (status OTP_VERIFIED), no step changes the visit's workerCount, remarks
\* or verifiedAt
C38_CountSubmittedOnce ==
    [][visit.status = "OTP_VERIFIED" /\ visit.workerCount # NoCount
        => /\ visit'.workerCount = visit.workerCount
           /\ visit'.remarks = visit.remarks
           /\ visit'.verifiedAt = visit.verifiedAt]_vars

\* the token check refused the request: nothing was sent to the provider
\* and no row changed
RefusedAtToken ==
    /\ resp'.code = 400
    /\ resp'.error = "Invalid or expired access token"
    /\ resp'.verifyCalls = 0
    /\ appt' = appt /\ visit' = visit

\* C40: the appointment's widget verification refuses every token that was
\* not issued for the appointment of the path (a token of another
\* appointment, a worker-visit token), and the visit's widget verification
\* every token not issued for the visit of the path, whatever the provider
\* would answer
C40_TokenBoundToEntity ==
    [][/\ (Served("widget-verify")
          /\ \/ resp'.req.accessToken.appointmentId # resp'.req.id
             \/ resp'.req.accessToken.purpose # "appointment"
          => RefusedAtToken)
       /\ (Served("visit-widget-verify") /\ resp'.req.workerCount > 0
          /\ \/ resp'.req.accessToken.visitId # resp'.req.id
             \/ resp'.req.accessToken.purpose # "worker_visit"
          => RefusedAtToken)]_vars

\* the visit's token, which the provider confirms, was presented to the
\* appointment's verification and refused
C40_Witness ==
    /\ resp.op = "widget-verify"
    /\ resp.req.accessToken.sig = "jwt.secret"
    /\ resp.req.accessToken.visitId = "v1"
    /\ resp.req.accessToken.purpose = "worker_visit"
    /\ resp.req.out.type = "success"
    /\ resp.req.id = appt.id
    /\ resp.code = 400

\* the token of appointment a1 was presented for another appointment and
\* refused
C40_OtherAppointmentWitness ==
    /\ resp.op = "widget-verify"
    /\ resp.req.accessToken \in tokens
    /\ resp.req.accessToken.appointmentId = "a1"
    /\ resp.req.id = "a2"
    /\ resp.req.out.type = "success"
    /\ resp.code = 400

\* the appointment's token, which the provider confirms, was presented to
\* the visit's verification and refused
C40_VisitWitness ==
    /\ resp.op = "visit-widget-verify"
    /\ resp.req.accessToken.sig = "jwt.secret"
    /\ resp.req.accessToken.purpose = "appointment"
    /\ resp.req.out.type = "success"
    /\ resp.req.id = visit.id
    /\ resp.req.workerCount > 0
    /\ resp.code = 400

\* both requests were delivered, p before q, and both have written their
\* update and answered
BothResent(op, p, q) ==
    /\ inflight[p].op = op /\ inflight[q].op = op
    /\ inflight[p].pc = "answered" /\ inflight[q].pc = "answered"
    /\ inflight[p].seq = 1 /\ inflight[q].seq = 2

\* C36: when two concurrent resend requests of an appointment have both
\* been delivered and answered, the code stored on the appointment is the
\* code of the delivery the gateway completed last
C36_StoredCodeIsLastDelivered ==
    \A p, q \in Requests : BothResent("resend", p, q) => appt.otp = inflight[q].otp

\* the stored code is the code of one of the two deliveries
StoredCodeWasDelivered ==
    \A p, q \in Requests :
        BothResent("resend", p, q) => appt.otp \in {inflight[p].otp, inflight[q].otp}

\* the code delivered first is the one stored, the code delivered last is
\* refused
C36_EarlierCodeStored ==
    \E p, q \in Requests :
        /\ BothResent("resend", p, q)
        /\ inflight[p].otp # inflight[q].otp
        /\ appt.otp = inflight[p].otp

\* C35: of one issued appointment OTP, at most 3 inline verifications
\* compare a submitted code with the stored one, however the concurrent
\* requests interleave (counted here: the comparisons of a wrong code)
C35_AtMostThreeCompares ==
    wrongCodes # Untracked => wrongCodes <= MaxAttempts

\* two verifications that read the same otpAttempts both compared their
\* code, and both wrote the same count
C35_BothComparedAtOnce ==
    /\ inflight["r1"].pc = "update" /\ inflight["r2"].pc = "update"
    /\ inflight["r1"].op = "verify" /\ inflight["r2"].op = "verify"
    /\ inflight["r1"].row.otpAttempts = inflight["r2"].row.otpAttempts
    /\ wrongCodes >= 2

\* the step serves a resend of the owner for the appointment at the attempt
\* limit, outside the cooldown, and the gateway delivers
ResendFromLockout ==
    /\ Served("resend") /\ Owned(resp'.req)
    /\ appt.status # "COMPLETED"
    /\ appt.otpAttempts = MaxAttempts
    /\ ~InCooldown(appt.otpSentAt)
    /\ sendVisitOTP(RecipientPhone(appt), generateOTP(OtpLength, resp'.req.draw),
                    resp'.req.outs).ok

\* the step serves a verification of the owner with the stored code, before
\* its expiry and with no attempt counted against it
VerifyOfFreshCode ==
    /\ Served("verify") /\ Owned(resp'.req)
    /\ appt.status # "COMPLETED"
    /\ appt.otp # NoText /\ appt.otpExpiresAt # NoTime
    /\ resp'.req.otp = appt.otp
    /\ appt.otpAttempts = 0
    /\ ~isOTPExpired(now, appt.otpExpiresAt)

\* C39: for an appointment that is not COMPLETED and whose otpAttempts is 3,
\* a resend outside the cooldown that the gateway delivers stores the new
\* code with otpAttempts 0 and its expiry, and a verification with the
\* stored code that follows before the expiry succeeds and sets VERIFIED
C39_LockoutRecoverable ==
    [][/\ ResendFromLockout
          => /\ resp'.code = 200
             /\ appt'.otpAttempts = 0
             /\ appt'.otp = generateOTP(OtpLength, resp'.req.draw)
             /\ appt'.otpExpiresAt = getOTPExpiry(now)
             /\ appt'.status = "OTP_SENT"
       /\ VerifyOfFreshCode
          => /\ resp'.code = 200
             /\ appt'.status = "VERIFIED"
             /\ appt'.verifiedAt = now]_vars

\* after the lockout a resend was delivered and the code it stored has been
\* verified
C39_Witness ==
    /\ resp.op = "verify" /\ resp.code = 200
    /\ resp.req.otp = appt.otp /\ appt.otp # BypassCode
    /\ appt.status = "VERIFIED" /\ appt.verifiedAt = now
    /\ resendAt = appt.otpSentAt /\ appt.otpSentAt >= CooldownPeriod
    /\ appt.otpAttempts = 1

====
